---- MODULE Spec2Model ----
(***************************************************************************)
(* A model of pyraysum/prs.py: the layered velocity model (class Model),   *)
(* its fixed-capacity mirror for the Fortran solver, and the layer editing *)
(* operations update, change, split_layer, remove_layer, combine_layers;   *)
(* the ray geometry (class Geometry); read_traces; the receiver functions  *)
(* and filters of class StreamList; run_frs; the cache of filter           *)
(* coefficients and filtered_rf_array.                                     *)
(*                                                                         *)
(* Specifications.  Spec: class Model.  SpecGeometry: Geometry.            *)
(* SpecRead: read_traces.  SpecRfs: StreamList.calculate_rfs.  SpecFilter: *)
(* StreamList.filter.  SpecRun: run_frs, statement by statement.           *)
(* SpecChange: change, split_layer and combine_layers on Models whose      *)
(* flags need not agree with their anisotropy.                             *)
(* SpecFast: _get_cached_bandpass_coefs and filtered_rf_array, call after  *)
(* call.  SpecRace: two callers of _get_cached_bandpass_coefs at once.     *)
(* The external libraries are held symbolically: a filter design names     *)
(* its order and corners, a filtered array names its coefficients and its  *)
(* input.  The Fourier transform is exact, for lengths 1, 2 and 4.         *)
(*                                                                         *)
(* Numbers.  numpy float arrays are modelled by exact rationals <<n, d>>   *)
(* in lowest terms with d >= 0.  d = 0 stands for the IEEE specials that   *)
(* numpy produces on a division by zero: <<1,0>> = inf, <<-1,0>> = -inf,   *)
(* <<0,0>> = nan.  Rounding of IEEE doubles is not modelled.               *)
(* An angle of the mirror is value * pi / 180; it is stored as the         *)
(* rational coefficient of pi.                                             *)
(*                                                                         *)
(* Arrays are sequences; Python index i is TLA+ index i + 1.               *)
(* An exception is a result record whose exc field names the Python        *)
(* exception class and whose msg field holds the message of the raise.     *)
(***************************************************************************)
EXTENDS Integers, Sequences, FiniteSets, TLC

\* ------------------------------------------------------------------ bounds
\* Largest maxlay a Model is constructed with (the code's default is 15).
MaxLay == 3
\* Number of public operations applied to the Model after construction.
MaxOps == 2

\* --------------------------------------------------------------- arithmetic
Abs(x) == IF x < 0 THEN -x ELSE x

Sign(x) == IF x < 0 THEN -1 ELSE IF x > 0 THEN 1 ELSE 0

RECURSIVE GCD(_, _)
GCD(a, b) == IF b = 0 THEN a ELSE GCD(b, a % b)

\* The float n/d: lowest terms, d >= 0; n/0 is inf, -inf or nan.
Q(n, d) ==
    IF d = 0 THEN <<Sign(n), 0>>
    ELSE LET g == GCD(Abs(n), Abs(d))
         IN  <<(Sign(d) * n) \div g, Abs(d) \div g>>

\* A Python int or float literal with an integral value.
R(n) == <<n, 1>>

NaN == <<0, 0>>

FAdd(a, b) == Q(a[1] * b[2] + b[1] * a[2], a[2] * b[2])

FSub(a, b) == Q(a[1] * b[2] - b[1] * a[2], a[2] * b[2])

FMul(a, b) == Q(a[1] * b[1], a[2] * b[2])

\* a / b as numpy divides: x/0 is +-inf, 0/0 is nan, no exception.
FDiv(a, b) ==
    IF b = <<0, 1>> THEN Q(a[1], 0)
    ELSE Q(a[1] * b[2] * Sign(b[1]), a[2] * Abs(b[1]))

\* == on floats: nan equals nothing, not even itself.
FEq(a, b) == a # NaN /\ b # NaN /\ a = b

\* value * np.pi/180, as the coefficient of pi.
Radians(a) == FDiv(a, R(180))

\* sum(arr): Python's sum starts from the int 0 and adds left to right.
RECURSIVE FSum(_)
FSum(arr) ==
    IF arr = <<>> THEN R(0)
    ELSE FAdd(FSum(SubSeq(arr, 1, Len(arr) - 1)), arr[Len(arr)])

\* ------------------------------------------------------------ numpy arrays
\* np.zeros(n) for n >= 0.
Zeros(n) == [i \in 1..n |-> R(0)]

\* Whether numpy can broadcast two 1-d arrays against each other.
Broadcastable(a, b) == Len(a) = Len(b) \/ Len(a) = 1 \/ Len(b) = 1

\* The length of the broadcast of two broadcastable 1-d arrays.
BroadcastLen(a, b) == IF Len(a) = 1 THEN Len(b) ELSE Len(a)

\* Element i of a 1-d array broadcast to a longer length.
At(a, i) == IF Len(a) = 1 THEN a[1] ELSE a[i]

\* a / b, a * b elementwise with broadcasting (the caller checks Broadcastable).
ArrDiv(a, b) == [i \in 1..BroadcastLen(a, b) |-> FDiv(At(a, i), At(b, i))]

ArrMul(a, b) == [i \in 1..BroadcastLen(a, b) |-> FMul(At(a, i), At(b, i))]

\* arr[top:bot] for 0 <= top, 0 <= bot: a slice clips at the array's end.
Slice(arr, top, bot) ==
    LET hi == IF bot > Len(arr) THEN Len(arr) ELSE bot
    IN  IF top >= hi THEN <<>> ELSE SubSeq(arr, top + 1, hi)

\* np.insert(arr, n, val) for 0 <= n <= len(arr).
Insert(arr, n, val) ==
    SubSeq(arr, 1, n) \o <<val>> \o SubSeq(arr, n + 1, Len(arr))

\* np.delete(arr, idx) for a set idx of in-range indices.
RECURSIVE Delete(_, _)
Delete(arr, idx) ==
    IF arr = <<>> THEN <<>>
    ELSE LET init == Delete(SubSeq(arr, 1, Len(arr) - 1), idx)
         IN  IF (Len(arr) - 1) \in idx THEN init ELSE Append(init, arr[Len(arr)])

\* --------------------------------------------------------------- exceptions
Ok(m) == [self |-> m, exc |-> "none", msg |-> ""]

Raise(m, kind, text) == [self |-> m, exc |-> kind, msg |-> text]

\* Model._useratts, in the order the editing loops visit the attributes.
useratts ==
    <<"thickn", "rho", "vp", "vs", "vpvs", "flag", "ani",
      "trend", "plunge", "strike", "dip">>

\* ------------------------------------------------------------------ Model
\* self.__dict__[att] for a user attribute: read and assign.  (Written
\* out by name: records are accessed with constant field names only.)
Attr(m, att) ==
    CASE att = "thickn" -> m.thickn
      [] att = "rho" -> m.rho
      [] att = "vp" -> m.vp
      [] att = "vs" -> m.vs
      [] att = "vpvs" -> m.vpvs
      [] att = "flag" -> m.flag
      [] att = "ani" -> m.ani
      [] att = "trend" -> m.trend
      [] att = "plunge" -> m.plunge
      [] att = "strike" -> m.strike
      [] att = "dip" -> m.dip

SetAttr(m, att, arr) ==
    CASE att = "thickn" -> [m EXCEPT !.thickn = arr]
      [] att = "rho" -> [m EXCEPT !.rho = arr]
      [] att = "vp" -> [m EXCEPT !.vp = arr]
      [] att = "vs" -> [m EXCEPT !.vs = arr]
      [] att = "vpvs" -> [m EXCEPT !.vpvs = arr]
      [] att = "flag" -> [m EXCEPT !.flag = arr]
      [] att = "ani" -> [m EXCEPT !.ani = arr]
      [] att = "trend" -> [m EXCEPT !.trend = arr]
      [] att = "plunge" -> [m EXCEPT !.plunge = arr]
      [] att = "strike" -> [m EXCEPT !.strike = arr]
      [] att = "dip" -> [m EXCEPT !.dip = arr]

\* arr with element i (a Python index) replaced by val.
SetItem(arr, i, val) == [arr EXCEPT ![i + 1] = val]

\* Mutant of set_fattributes: the mirror is patched in place, so the entries
\* past nlay keep what the mirror held before instead of zeros.
set_fattributes_patched(m) ==
    IF m.maxlay - m.nlay < 0
    THEN Raise(m, "ValueError", "negative dimensions are not allowed")
    ELSE LET patch(f, u) ==
                 [i \in 1..(Len(u) + m.maxlay - m.nlay) |->
                     IF i <= Len(u) THEN u[i]
                     ELSE IF i <= Len(f) THEN f[i] ELSE R(0)]
             rad(u) == [i \in 1..Len(u) |-> Radians(u[i])]
         IN  Ok([m EXCEPT
                 !.fthickn = patch(@, m.thickn),
                 !.frho = patch(@, m.rho),
                 !.fvp = patch(@, m.vp),
                 !.fvs = patch(@, m.vs),
                 !.fflag = patch(@, m.flag),
                 !.fani = patch(@, m.ani),
                 !.ftrend = patch(@, rad(m.trend)),
                 !.fplunge = patch(@, rad(m.plunge)),
                 !.fstrike = patch(@, rad(m.strike)),
                 !.fdip = patch(@, rad(m.dip))])

\* Model._set_fattributes: the mirror is rebuilt from the user attributes,
\* padded with maxlay - nlay zeros.  np.zeros of a negative length raises
\* ValueError before any mirror array is assigned.
set_fattributes(m) ==
    IF m.maxlay - m.nlay < 0
    THEN Raise(m, "ValueError", "negative dimensions are not allowed")
    ELSE LET tail == Zeros(m.maxlay - m.nlay)
         IN  Ok([m EXCEPT
                 !.fthickn = m.thickn \o tail,
                 !.frho = m.rho \o tail,
                 !.fvp = m.vp \o tail,
                 !.fvs = m.vs \o tail,
                 !.fflag = m.flag \o tail,
                 !.fani = m.ani \o tail,
                 !.ftrend = [i \in 1..(Len(m.trend) + Len(tail)) |->
                                Radians((m.trend \o tail)[i])],
                 !.fplunge = [i \in 1..(Len(m.plunge) + Len(tail)) |->
                                Radians((m.plunge \o tail)[i])],
                 !.fstrike = [i \in 1..(Len(m.strike) + Len(tail)) |->
                                Radians((m.strike \o tail)[i])],
                 !.fdip = [i \in 1..(Len(m.dip) + Len(tail)) |->
                                Radians((m.dip \o tail)[i])]])

\* Mutant of update: the unknown fix mode is reported as a TypeError.
update_typeerror(m, fix) ==
    IF fix = "vp" THEN set_fattributes([m EXCEPT !.vs = ArrDiv(m.vp, m.vpvs)])
    ELSE IF fix = "vs" THEN set_fattributes([m EXCEPT !.vp = ArrMul(m.vs, m.vpvs)])
    ELSE IF fix \in {"None", ""} THEN set_fattributes([m EXCEPT !.vpvs = ArrDiv(m.vp, m.vs)])
    ELSE Raise(m, "TypeError", "Unknown fix keyword: ")

\* Mutant of update: the two fix modes are exchanged.
update_swapped(m, fix) ==
    IF fix = "vs" THEN set_fattributes([m EXCEPT !.vs = ArrDiv(m.vp, m.vpvs)])
    ELSE IF fix = "vp" THEN set_fattributes([m EXCEPT !.vp = ArrMul(m.vs, m.vpvs)])
    ELSE IF fix \in {"None", ""} THEN set_fattributes([m EXCEPT !.vpvs = ArrDiv(m.vp, m.vs)])
    ELSE Raise(m, "ValueError", "Unknown fix keyword: ")

\* Model.update(fix).  fix = "None" stands for Python's None; None and the
\* empty string are falsy.  An array division of arrays that cannot be
\* broadcast raises ValueError.
update(m, fix) ==
    IF fix = "vp" THEN
        IF Broadcastable(m.vp, m.vpvs)
        THEN set_fattributes([m EXCEPT !.vs = ArrDiv(m.vp, m.vpvs)])
        ELSE Raise(m, "ValueError", "operands could not be broadcast together")
    ELSE IF fix = "vs" THEN
        IF Broadcastable(m.vs, m.vpvs)
        THEN set_fattributes([m EXCEPT !.vp = ArrMul(m.vs, m.vpvs)])
        ELSE Raise(m, "ValueError", "operands could not be broadcast together")
    ELSE IF fix \in {"None", ""} THEN
        IF Broadcastable(m.vp, m.vs)
        THEN set_fattributes([m EXCEPT !.vpvs = ArrDiv(m.vp, m.vs)])
        ELSE Raise(m, "ValueError", "operands could not be broadcast together")
    ELSE Raise(m, "ValueError", "Unknown fix keyword: ")

\* An object whose attributes are not assigned yet.
NoModel ==
    [nlay |-> 0, maxlay |-> 0,
     thickn |-> <<>>, rho |-> <<>>, vp |-> <<>>, vs |-> <<>>, vpvs |-> <<>>,
     flag |-> <<>>, ani |-> <<>>, trend |-> <<>>, plunge |-> <<>>,
     strike |-> <<>>, dip |-> <<>>,
     fthickn |-> <<>>, frho |-> <<>>, fvp |-> <<>>, fvs |-> <<>>,
     fflag |-> <<>>, fani |-> <<>>, ftrend |-> <<>>, fplunge |-> <<>>,
     fstrike |-> <<>>, fdip |-> <<>>]

\* _get_val(v) and the flag expression of __init__: an optional argument is
\* [tag |-> "None"], [tag |-> "scalar", v |-> x] or [tag |-> "array", v |-> arr].
\* None gives nlay zeros, a scalar is repeated nlay times, an array is taken
\* as it is, whatever its length.  (flag defaults to the scalar 1.)
get_val(v, nlay) ==
    IF v.tag = "None" THEN Zeros(nlay)
    ELSE IF v.tag = "scalar" THEN [i \in 1..nlay |-> v.v]
    ELSE v.v

\* Model.__init__.  nlay is len(thickn); no length of another argument is
\* compared with it.  vp / vs raises ValueError when the two cannot be
\* broadcast, and _set_fattributes raises when nlay > maxlay; in both cases
\* no object is produced.
__init__(a) ==
    IF ~Broadcastable(a.vp, a.vs)
    THEN Raise(NoModel, "ValueError", "operands could not be broadcast together")
    ELSE LET nlay == Len(a.thickn)
             r == set_fattributes(
                    [NoModel EXCEPT
                       !.nlay = nlay,
                       !.thickn = a.thickn,
                       !.rho = a.rho,
                       !.vp = a.vp,
                       !.vs = a.vs,
                       !.vpvs = ArrDiv(a.vp, a.vs),
                       !.flag = get_val(a.flag, nlay),
                       !.ani = get_val(a.ani, nlay),
                       !.trend = get_val(a.trend, nlay),
                       !.plunge = get_val(a.plunge, nlay),
                       !.strike = get_val(a.strike, nlay),
                       !.dip = get_val(a.dip, nlay),
                       !.maxlay = a.maxlay])
         IN  IF r.exc = "none" THEN r ELSE Raise(NoModel, r.exc, r.msg)

\* ------------------------------------------------------------ Python strings
\* A str is a sequence of one-character strings.
Digits == {"0", "1", "2", "3", "4", "5", "6", "7", "8", "9"}

DigitVal(c) ==
    CASE c = "0" -> 0 [] c = "1" -> 1 [] c = "2" -> 2 [] c = "3" -> 3
      [] c = "4" -> 4 [] c = "5" -> 5 [] c = "6" -> 6 [] c = "7" -> 7
      [] c = "8" -> 8 [] c = "9" -> 9

\* The least index of s that holds a character of the set cs, 0 if none.
Find(s, cs) ==
    IF \E i \in 1..Len(s) : s[i] \in cs
    THEN CHOOSE i \in 1..Len(s) : s[i] \in cs /\ \A j \in 1..(i - 1) : s[j] \notin cs
    ELSE 0

\* str.split(sep) for a one-character sep.
RECURSIVE Split(_, _)
Split(s, sep) ==
    LET i == Find(s, {sep})
    IN  IF i = 0 THEN <<s>>
        ELSE <<SubSeq(s, 1, i - 1)>> \o Split(SubSeq(s, i + 1, Len(s)), sep)

\* str.strip(): leading and trailing blanks removed.
RECURSIVE Strip(_)
Strip(s) ==
    IF s = <<>> THEN s
    ELSE IF s[1] = " " THEN Strip(SubSeq(s, 2, Len(s)))
    ELSE IF s[Len(s)] = " " THEN Strip(SubSeq(s, 1, Len(s) - 1))
    ELSE s

\* s without one leading sign character.
Unsigned(s) ==
    IF s # <<>> /\ s[1] \in {"+", "-"} THEN SubSeq(s, 2, Len(s)) ELSE s

\* The value of a string of digits.
RECURSIVE Decimal(_)
Decimal(s) ==
    IF s = <<>> THEN 0
    ELSE 10 * Decimal(SubSeq(s, 1, Len(s) - 1)) + DigitVal(s[Len(s)])

RECURSIVE Pow10(_)
Pow10(k) == IF k = 0 THEN 1 ELSE 10 * Pow10(k - 1)

\* Whether int(s) succeeds: blanks around an optionally signed, non-empty
\* string of digits.
IsInt(s) ==
    LET u == Unsigned(Strip(s))
    IN  u # <<>> /\ \A i \in 1..Len(u) : u[i] \in Digits

\* int(s) where IsInt(s).
IntVal(s) ==
    LET t == Strip(s)
    IN  (IF t[1] = "-" THEN -1 ELSE 1) * Decimal(Unsigned(t))

\* Whether float(s) succeeds, for strings without exponent, inf or nan:
\* blanks around an optionally signed decimal with at most one point and at
\* least one digit.
IsFloat(s) ==
    LET u == Unsigned(Strip(s))
        points == {i \in 1..Len(u) : u[i] = "."}
    IN  /\ \A i \in 1..Len(u) : u[i] \in Digits \cup {"."}
        /\ Cardinality(points) <= 1
        /\ \E i \in 1..Len(u) : u[i] \in Digits

\* float(s) where IsFloat(s).
FloatVal(s) ==
    LET t == Strip(s)
        u == Unsigned(t)
        p == Find(u, {"."})
        whole == IF p = 0 THEN u ELSE SubSeq(u, 1, p - 1)
        frac == IF p = 0 THEN <<>> ELSE SubSeq(u, p + 1, Len(u))
        mag == Q(Decimal(whole) * Pow10(Len(frac)) + Decimal(frac), Pow10(Len(frac)))
    IN  IF t[1] = "-" THEN FSub(R(0), mag) ELSE mag

\* ------------------------------------------------------------ Model.change
\* The keys of the dict ATT.
ATTKeys ==
    {<<"t">>, <<"v", "p">>, <<"v", "s">>, <<"p", "s", "p">>, <<"p", "s", "s">>,
     <<"s">>, <<"d">>, <<"a">>, <<"t", "r">>, <<"p", "l">>}

\* The dict ATT: the attribute a key names.
ATT(att) ==
    CASE att = <<"t">> -> "thickn"
      [] att = <<"v", "p">> -> "vp"
      [] att = <<"v", "s">> -> "vs"
      [] att = <<"p", "s", "p">> -> "vpvs"
      [] att = <<"p", "s", "s">> -> "vpvs"
      [] att = <<"s">> -> "strike"
      [] att = <<"d">> -> "dip"
      [] att = <<"a">> -> "ani"
      [] att = <<"t", "r">> -> "trend"
      [] att = <<"p", "l">> -> "plunge"

\* The factor that converts the km and km/s of a directive to m and m/s.
KmToM == 1000

\* The sign loop of change: the first of = + - that splits the command in
\* exactly two parts; the loop ends on - when none does.
SignOf(command) ==
    IF Len(Split(command, "=")) = 2 THEN "="
    ELSE IF Len(Split(command, "+")) = 2 THEN "+"
    ELSE "-"

\* The enumerate loop of change: the index of the first digit of attlay, the
\* last index when attlay holds no digit, and the value n had before (n0,
\* -1 for unbound) when attlay is empty.
LayerStart(attlay, n0) ==
    IF attlay = <<>> THEN n0
    ELSE IF Find(attlay, Digits) # 0 THEN Find(attlay, Digits) - 1
    ELSE Len(attlay) - 1

\* Mutant of Applied: a decrease is applied as an increase.
Applied_increase_only(old, sign, inc) ==
    IF sign = "=" THEN inc ELSE FAdd(old, inc)

\* The new value of an element under a directive's sign.
Applied(old, sign, inc) ==
    IF sign = "=" THEN inc
    ELSE IF sign = "+" THEN FAdd(old, inc)
    ELSE FSub(old, inc)

\* Mutant of FlagFor: the flag is set to 1 and the test of the anisotropy
\* is left out.
FlagFor_always_isotropic(ani) == R(1)

\* The isotropy flag of change: 1, and 0 when the anisotropy is not 0
\* (nan != 0 is true).
FlagFor(ani) == IF FEq(ani, R(0)) THEN R(1) ELSE R(0)

\* One pass of the body of the loop of change over a non-empty command.
\* The result carries n, the loop variable that survives to the next pass.
Directive(m, command, n0) ==
    LET sign == SignOf(command)
        ans == Split(command, sign)
    IN  IF Len(ans) # 2
        THEN Raise(m, "ValueError", "values to unpack") @@ [n |-> n0]
        ELSE
        LET attlay == ans[1]
            n == LayerStart(attlay, n0)
        IN  IF n < 0
            THEN Raise(m, "UnboundLocalError", "n referenced before assignment") @@ [n |-> n]
            ELSE
            LET att == Strip(Slice(attlay, 0, n))
                laystr == Slice(attlay, n, Len(attlay))
            IN  IF ~IsInt(laystr)
                THEN Raise(m, "ValueError", "invalid literal for int()") @@ [n |-> n]
                ELSE IF ~IsFloat(ans[2])
                THEN Raise(m, "ValueError", "could not convert string to float") @@ [n |-> n]
                ELSE
                LET lay == IntVal(laystr)
                    inc == IF att \in {<<"t">>, <<"v", "p">>, <<"v", "s">>}
                           THEN FMul(FloatVal(ans[2]), R(KmToM))
                           ELSE FloatVal(ans[2])
                    fix == IF att = <<"p", "s", "p">> THEN "vs"
                           ELSE IF att = <<"p", "s", "s">> THEN "vp"
                           ELSE "None"
                IN  IF att \notin ATTKeys
                    THEN Raise(m, "KeyError", "ATT[att]") @@ [n |-> n]
                    ELSE IF lay >= Len(Attr(m, ATT(att)))
                    THEN Raise(m, "IndexError", "index out of bounds") @@ [n |-> n]
                    ELSE
                    LET old == Attr(m, ATT(att))
                        m1 == SetAttr(m, ATT(att),
                                      SetItem(old, lay, Applied(old[lay + 1], sign, inc)))
                    IN  IF lay >= Len(m1.flag) \/ lay >= Len(m1.ani)
                        THEN Raise(m1, "IndexError", "index out of bounds") @@ [n |-> n]
                        ELSE update([m1 EXCEPT !.flag = SetItem(@, lay, FlagFor(m1.ani[lay + 1]))],
                                    fix) @@ [n |-> n]

\* Mutant of ChangeLoop: a directive that raises is skipped.
RECURSIVE ChangeLoop_skips_failures(_, _, _, _)
ChangeLoop_skips_failures(m, cmds, k, n0) ==
    IF k > Len(cmds) THEN Ok(m)
    ELSE IF cmds[k] = <<>> THEN ChangeLoop_skips_failures(m, cmds, k + 1, n0)
    ELSE LET r == Directive(m, cmds[k], n0)
         IN  IF r.exc # "none" THEN ChangeLoop_skips_failures(m, cmds, k + 1, n0)
             ELSE ChangeLoop_skips_failures(r.self, cmds, k + 1, r.n)

\* The loop of change over commands.split(';') from command k on: empty
\* commands are skipped, the first exception ends the loop.
RECURSIVE ChangeLoop(_, _, _, _)
ChangeLoop(m, cmds, k, n0) ==
    IF k > Len(cmds) THEN Ok(m)
    ELSE IF cmds[k] = <<>> THEN ChangeLoop(m, cmds, k + 1, n0)
    ELSE LET r == Directive(m, cmds[k], n0)
         IN  IF r.exc # "none" THEN Raise(r.self, r.exc, r.msg)
             ELSE ChangeLoop(r.self, cmds, k + 1, r.n)

\* Model.change(commands).
change(m, commands) == ChangeLoop(m, Split(commands, ";"), 1, -1)

\* ------------------------------------------------------- layer operations
\* The loop of split_layer from attribute k on: np.insert(arr, n, arr[n]);
\* arr[n] raises IndexError for n >= len(arr) and ends the loop.
RECURSIVE SplitLoop(_, _, _)
SplitLoop(m, n, k) ==
    IF k > Len(useratts) THEN Ok(m)
    ELSE LET att == useratts[k]
             arr == Attr(m, att)
         IN  IF n >= Len(arr)
             THEN Raise(m, "IndexError", "index out of bounds")
             ELSE SplitLoop(SetAttr(m, att, Insert(arr, n, arr[n + 1])), n, k + 1)

\* Mutant of split_layer: only the upper of the two layers is halved.
split_layer_one_half(m, n) ==
    LET r == SplitLoop(m, n, 1)
    IN  IF r.exc # "none" THEN r
        ELSE LET th == r.self.thickn
             IN  update([r.self EXCEPT !.thickn = SetItem(th, n, FDiv(th[n + 1], R(2))),
                                       !.nlay = @ + 1], "None")

\* Model.split_layer(n) for n >= 0.
split_layer(m, n) ==
    LET r == SplitLoop(m, n, 1)
    IN  IF r.exc # "none" THEN r
        ELSE LET th == r.self.thickn
                 halved == SetItem(SetItem(th, n, FDiv(th[n + 1], R(2))),
                                   n + 1, FDiv(th[n + 2], R(2)))
             IN  update([r.self EXCEPT !.thickn = halved, !.nlay = @ + 1], "None")

\* The loop of remove_layer from attribute k on: np.delete(arr, n) raises
\* IndexError for n >= len(arr).
RECURSIVE RemoveLoop(_, _, _)
RemoveLoop(m, n, k) ==
    IF k > Len(useratts) THEN Ok(m)
    ELSE LET att == useratts[k]
             arr == Attr(m, att)
         IN  IF n >= Len(arr)
             THEN Raise(m, "IndexError", "index out of bounds")
             ELSE RemoveLoop(SetAttr(m, att, Delete(arr, {n})), n, k + 1)

\* Mutant of remove_layer: the layer count is not decremented.
remove_layer_keeps_nlay(m, n) ==
    LET r == RemoveLoop(m, n, 1)
    IN  IF r.exc # "none" THEN r ELSE update(r.self, "None")

\* Model.remove_layer(n) for n >= 0.
remove_layer(m, n) ==
    LET r == RemoveLoop(m, n, 1)
    IN  IF r.exc # "none" THEN r
        ELSE update([r.self EXCEPT !.nlay = @ - 1], "None")

\* all(arr): every element is truthy, that is, not 0.
All(arr) == \A i \in 1..Len(arr) : arr[i] # R(0)

\* Mutant of AllSame: the first element is compared with itself only.
AllSame_first(arr) == FEq(arr[1], arr[1])

\* all(arr[0] == arr) for a non-empty arr.
AllSame(arr) == \A i \in 1..Len(arr) : FEq(arr[1], arr[i])

\* Mutant of Weights: every layer of the range weighs the same.
Weights_uniform(th) == [i \in 1..Len(th) |-> FDiv(R(1), R(Len(th)))]

\* weights = self.thickn[top:bot] / thickn with thickn = sum(self.thickn[top:bot]).
Weights(th) == [i \in 1..Len(th) |-> FDiv(th[i], FSum(th))]

\* The loop of combine_layers from attribute k on.  layer holds the merged
\* thickn, vp, vs and rho; an attribute that is no key of layer keeps its
\* value at top (the KeyError is passed).  np.delete raises IndexError when
\* an index of range(top+1, bot) is past the end, after element top of that
\* attribute has been assigned.
RECURSIVE CombineLoop(_, _, _, _, _)
CombineLoop(m, layer, top, bot, k) ==
    IF k > Len(useratts) THEN Ok(m)
    ELSE LET att == useratts[k]
             arr == Attr(m, att)
             inlayer == att \in {"thickn", "vp", "vs", "rho"}
             val == CASE att = "thickn" -> layer.thickn
                      [] att = "vp" -> layer.vp
                      [] att = "vs" -> layer.vs
                      [] att = "rho" -> layer.rho
                      [] OTHER -> R(0)
         IN  IF inlayer /\ top >= Len(arr)
             THEN Raise(m, "IndexError", "index out of bounds")
             ELSE
             LET arr1 == IF inlayer THEN SetItem(arr, top, val) ELSE arr
             IN  IF bot - 1 > top /\ bot - 1 >= Len(arr1)
                 THEN Raise(SetAttr(m, att, arr1), "IndexError", "index out of bounds")
                 ELSE CombineLoop(SetAttr(m, att, Delete(arr1, (top + 1)..(bot - 1))),
                                  layer, top, bot, k + 1)

\* Model.combine_layers(top, bottom) for top >= 0 and bottom >= 0.
combine_layers(m, top, bottom) ==
    IF bottom <= top
    THEN Raise(m, "IndexError", "bottom must be larger than top.")
    ELSE
    LET bot == bottom + 1
        th == Slice(m.thickn, top, bot)
    IN  IF ~All(Slice(m.flag, top, bot))
        THEN Raise(m, "ValueError", "Can only combine isotropic layers")
        ELSE IF Slice(m.dip, top, bot) = <<>>
        THEN Raise(m, "IndexError", "index out of bounds")
        ELSE IF ~AllSame(Slice(m.dip, top, bot))
        THEN Raise(m, "ValueError", "All layers must have the same dip")
        ELSE IF Slice(m.strike, top, bot) = <<>>
        THEN Raise(m, "IndexError", "index out of bounds")
        ELSE IF ~AllSame(Slice(m.strike, top, bot))
        THEN Raise(m, "ValueError", "All layers must have the same strike")
        ELSE IF \E a \in {"vp", "vs", "rho"} : ~Broadcastable(Slice(Attr(m, a), top, bot), th)
        THEN Raise(m, "ValueError", "operands could not be broadcast together")
        ELSE
        LET thickn == FSum(th)
            weights == Weights(th)
            layer == [thickn |-> thickn,
                      vp |-> FSum(ArrMul(Slice(m.vp, top, bot), weights)),
                      vs |-> FSum(ArrMul(Slice(m.vs, top, bot), weights)),
                      rho |-> FSum(ArrMul(Slice(m.rho, top, bot), weights))]
            r == CombineLoop(m, layer, top, bot, 1)
        IN  IF r.exc # "none" THEN r
            ELSE update([r.self EXCEPT !.nlay = @ - (bottom - top)], "None")

\* ------------------------------------------------------------------ inputs
\* The rows of the models the runs start from (thickn, rho, vp, vs, flag,
\* ani, trend, plunge, strike, dip as in a model file): two isotropic
\* layers with the same strike and dip, and an anisotropic dipping
\* half-space.
RowA ==
    [thickn |-> R(30000), rho |-> R(2800), vp |-> R(6000), vs |-> R(3000),
     flag |-> R(1), ani |-> R(0), trend |-> R(0), plunge |-> R(0),
     strike |-> R(0), dip |-> R(0)]

RowB ==
    [thickn |-> R(10000), rho |-> R(3100), vp |-> R(8000), vs |-> R(5000),
     flag |-> R(1), ani |-> R(0), trend |-> R(0), plunge |-> R(0),
     strike |-> R(0), dip |-> R(0)]

RowC ==
    [thickn |-> R(0), rho |-> R(3300), vp |-> R(8000), vs |-> R(4000),
     flag |-> R(0), ani |-> R(5), trend |-> R(30), plunge |-> R(10),
     strike |-> R(90), dip |-> R(20)]

Column(rows, f) == [i \in 1..Len(rows) |-> Attr(rows[i], f)]

Given(arr) == [tag |-> "array", v |-> arr]

\* The arguments of Model(*zip(*values)) for the rows of a model file.
ArgsOf(rows, maxlay) ==
    [thickn |-> Column(rows, "thickn"), rho |-> Column(rows, "rho"),
     vp |-> Column(rows, "vp"), vs |-> Column(rows, "vs"),
     flag |-> Given(Column(rows, "flag")), ani |-> Given(Column(rows, "ani")),
     trend |-> Given(Column(rows, "trend")), plunge |-> Given(Column(rows, "plunge")),
     strike |-> Given(Column(rows, "strike")), dip |-> Given(Column(rows, "dip")),
     maxlay |-> maxlay]

InitModels == {<<RowA, RowB>>, <<RowA, RowB, RowC>>}

\* Constructor arguments with arrays of one length that fits maxlay.
InitArgs ==
    {ArgsOf(rows, k) : rows \in InitModels, k \in 1..MaxLay} \
        {a \in {ArgsOf(rows, k) : rows \in InitModels, k \in 1..MaxLay} :
            Len(a.thickn) > a.maxlay}

\* The fix arguments update is called with: None, the two modes, and a
\* string that is no mode.
FixModes == {"None", "vp", "vs", "rho"}

\* Layer indices operations are called with, valid and past the end.
Indices == 0..MaxLay

\* Command strings change is called with:
\*   t0+10  vp0=6.5  vs1-1  psp0+0.5  pss1=2.5  s1=45  d1+5  a0=5  a1=0
\*   tr0-30  pl1=10  t0+10;d1+5  x0=1  t0  t0==1  t=5  t0.5=1  t0=x
Commands ==
    {<<"t", "0", "+", "1", "0">>,
     <<"v", "p", "0", "=", "6", ".", "5">>,
     <<"v", "s", "1", "-", "1">>,
     <<"p", "s", "p", "0", "+", "0", ".", "5">>,
     <<"p", "s", "s", "1", "=", "2", ".", "5">>,
     <<"s", "1", "=", "4", "5">>,
     <<"d", "1", "+", "5">>,
     <<"a", "0", "=", "5">>,
     <<"a", "1", "=", "0">>,
     <<"t", "r", "0", "-", "3", "0">>,
     <<"p", "l", "1", "=", "1", "0">>,
     <<"t", "0", "+", "1", "0", ";", "d", "1", "+", "5">>,
     <<"x", "0", "=", "1">>,
     <<"t", "0">>,
     <<"t", "0", "=", "=", "1">>,
     <<"t", "=", "5">>,
     <<"t", "0", ".", "5", "=", "1">>,
     <<"t", "0", "=", "x">>}

\* ------------------------------------------------------------------- state
VARIABLES
    args,   \* the arguments the object of a run was constructed with, or
            \* those of the last call of a module-level function
    self,   \* the object the calls of a run act on: its attributes; for
            \* module-level functions the module's globals and the locals
    last,   \* the last public call, its arguments and the exception it raised
    ops     \* the number of public calls made after construction

vars == <<args, self, last, ops>>

\* The record of a call: unused argument fields hold -1, "" or <<>>.
Call(op, n, top, bottom, fix, commands, r) ==
    [op |-> op, n |-> n, top |-> top, bottom |-> bottom, fix |-> fix,
     commands |-> commands, exc |-> r.exc, msg |-> r.msg]

Init ==
    /\ args \in InitArgs
    /\ self = __init__(args).self
    /\ last = Call("__init__", -1, -1, -1, "", <<>>, __init__(args))
    /\ ops = 0

Update(fix) ==
    LET r == update(self, fix)
    IN  /\ ops < MaxOps
        /\ self' = r.self
        /\ last' = Call("update", -1, -1, -1, fix, <<>>, r)
        /\ ops' = ops + 1
        /\ UNCHANGED args

Change(commands) ==
    LET r == change(self, commands)
    IN  /\ ops < MaxOps
        /\ self' = r.self
        /\ last' = Call("change", -1, -1, -1, "", commands, r)
        /\ ops' = ops + 1
        /\ UNCHANGED args

SplitLayer(n) ==
    LET r == split_layer(self, n)
    IN  /\ ops < MaxOps
        /\ self' = r.self
        /\ last' = Call("split_layer", n, -1, -1, "", <<>>, r)
        /\ ops' = ops + 1
        /\ UNCHANGED args

RemoveLayer(n) ==
    LET r == remove_layer(self, n)
    IN  /\ ops < MaxOps
        /\ self' = r.self
        /\ last' = Call("remove_layer", n, -1, -1, "", <<>>, r)
        /\ ops' = ops + 1
        /\ UNCHANGED args

CombineLayers(top, bottom) ==
    LET r == combine_layers(self, top, bottom)
    IN  /\ ops < MaxOps
        /\ self' = r.self
        /\ last' = Call("combine_layers", -1, top, bottom, "", <<>>, r)
        /\ ops' = ops + 1
        /\ UNCHANGED args

Next ==
    \/ \E fix \in FixModes : Update(fix)
    \/ \E commands \in Commands : Change(commands)
    \/ \E n \in Indices : SplitLayer(n)
    \/ \E n \in Indices : RemoveLayer(n)
    \/ \E top \in Indices, bottom \in Indices : CombineLayers(top, bottom)

Spec == Init /\ [][Next]_vars

\* -------------------------------------------- construction, as an operation
\* Arguments of any lengths: thickn and rho of one length, vp and vs each
\* of a length of its own, the optional arguments left at their defaults.
Prefix(arr, k) == SubSeq(arr, 1, k)

CtorArgs ==
    {[thickn |-> Prefix(Column(<<RowA, RowB, RowC, RowA>>, "thickn"), nt),
      rho |-> Prefix(Column(<<RowA, RowB, RowC, RowA>>, "rho"), nt),
      vp |-> Prefix(Column(<<RowA, RowB, RowC, RowA>>, "vp"), np),
      vs |-> Prefix(Column(<<RowA, RowB, RowC, RowA>>, "vs"), ns),
      flag |-> [tag |-> "scalar", v |-> R(1)],
      ani |-> [tag |-> "None"], trend |-> [tag |-> "None"],
      plunge |-> [tag |-> "None"], strike |-> [tag |-> "None"],
      dip |-> [tag |-> "None"],
      maxlay |-> k] :
        nt \in 0..MaxLay, np \in 0..MaxLay, ns \in 0..MaxLay, k \in {MaxLay}}

InitCtor ==
    /\ args \in CtorArgs
    /\ self = NoModel
    /\ last = Call("none", -1, -1, -1, "", <<>>, Ok(NoModel))
    /\ ops = 0

Construct ==
    LET r == __init__(args)
    IN  /\ last.op = "none"
        /\ self' = r.self
        /\ last' = Call("__init__", -1, -1, -1, "", <<>>, r)
        /\ UNCHANGED <<args, ops>>

NextCtor == Construct

SpecInit == InitCtor /\ [][NextCtor]_vars

\* ------------------------------------ update after direct attribute edits
\* The user attributes are public arrays; update is documented as the call
\* to make after they have been changed.  These runs start from a Model
\* whose vp, vs and vpvs have been assigned independently of each other.
EditedValues ==
    [vp : {<<R(6000), R(8000)>>, <<R(6500), R(7000)>>},
     vs : {<<R(3000), R(5000)>>, <<R(3250), R(4000)>>},
     vpvs : {<<R(2), Q(8, 5)>>, <<Q(7, 4), R(2)>>, <<Q(3, 2), Q(5, 2)>>}]

InitEdited ==
    /\ args \in {ArgsOf(<<RowA, RowB>>, k) : k \in 2..MaxLay}
    /\ \E e \in EditedValues :
          self = [__init__(args).self EXCEPT !.vp = e.vp, !.vs = e.vs, !.vpvs = e.vpvs]
    /\ last = Call("__init__", -1, -1, -1, "", <<>>, __init__(args))
    /\ ops = 0

NextUpdate == \E fix \in FixModes \cup {""} : Update(fix)

SpecUpdate == InitEdited /\ [][NextUpdate]_vars

\* ================================================================== claims
\* The mirror arrays of the solver interface.
Mirror(m, att) ==
    CASE att = "thickn" -> m.fthickn
      [] att = "rho" -> m.frho
      [] att = "vp" -> m.fvp
      [] att = "vs" -> m.fvs
      [] att = "flag" -> m.fflag
      [] att = "ani" -> m.fani
      [] att = "trend" -> m.ftrend
      [] att = "plunge" -> m.fplunge
      [] att = "strike" -> m.fstrike
      [] att = "dip" -> m.fdip

PlainAtts == {"thickn", "rho", "vp", "vs", "flag", "ani"}

AngleAtts == {"trend", "plunge", "strike", "dip"}

UserAtts == {useratts[k] : k \in 1..Len(useratts)}

\* The mirror corresponds to the user attributes: every mirror array has
\* maxlay entries, the first nlay are the user values (angles as the
\* coefficient of pi, that is, a 180th of the degrees), the rest are zero.
InSync(m) ==
    /\ m.nlay <= m.maxlay
    /\ \A att \in PlainAtts \cup AngleAtts :
          /\ Len(Mirror(m, att)) = m.maxlay
          /\ Len(Attr(m, att)) = m.nlay
          /\ \A i \in 1..m.nlay :
                IF att \in AngleAtts
                THEN FMul(Mirror(m, att)[i], R(180)) = Attr(m, att)[i]
                ELSE Mirror(m, att)[i] = Attr(m, att)[i]
          /\ \A i \in (m.nlay + 1)..m.maxlay : Mirror(m, att)[i] = R(0)

\* All eleven user attributes of layer i (a TLA+ index).
Layer(m, i) == [att \in UserAtts |-> Attr(m, att)[i]]

\* C1: whenever a constructor or mutator call has returned normally, every
\* mirror array has length maxlay, its first nlay entries are the current
\* user values (angles times pi/180) and its entries from nlay on are zero.
C1_MirrorInSyncAfterReturn == last.exc = "none" => InSync(self)

\* C1 witness: a merge has returned on a model that is left with padding
\* where a layer used to be.
C1_Witness ==
    /\ last.op = "combine_layers"
    /\ last.exc = "none"
    /\ self.nlay < self.maxlay
    /\ Len(args.thickn) = self.maxlay

\* C2: in every state between public operations, also the one a failed
\* mutator leaves behind, the mirror corresponds to the user attributes.
C2_NoStaleMirror == InSync(self)

\* C3: for a Model constructed with equal-length arrays, all eleven
\* per-layer arrays have length nlay after any sequence of calls.
C3_EqualLengths == \A att \in UserAtts : Len(Attr(self, att)) = self.nlay

\* C3 witness: two calls have been made, the second one a removal.
C3_Witness ==
    /\ ops >= 2
    /\ last.op = "remove_layer"
    /\ last.exc = "none"
    /\ self.nlay # Len(args.thickn)

\* C4: split_layer(n) with 0 <= n < nlay adds one layer; layers n and n+1
\* each get half the thickness of the old layer n and its other attributes;
\* the total thickness is kept, the layers before n are unchanged and the
\* layers after n move down one position unchanged.
C4_SplitLayer ==
    [][(last'.op = "split_layer" /\ last'.n < self.nlay) =>
         LET n == last'.n
         IN  /\ self'.nlay = self.nlay + 1
             /\ \A k \in {n + 1, n + 2} :
                   /\ FMul(self'.thickn[k], R(2)) = self.thickn[n + 1]
                   /\ \A att \in UserAtts \ {"thickn"} :
                         Attr(self', att)[k] = Attr(self, att)[n + 1]
             /\ FSum(self'.thickn) = FSum(self.thickn)
             /\ \A i \in 1..n : Layer(self', i) = Layer(self, i)
             /\ \A i \in (n + 2)..self.nlay : Layer(self', i + 1) = Layer(self, i)]_vars

\* C4 witness: the top layer of a model of at least two layers was split.
C4_Witness ==
    /\ last.op = "split_layer"
    /\ last.n = 0
    /\ last.exc = "none"
    /\ self.nlay >= 3
    /\ self.thickn[1] = R(15000)

\* The layers (Python indices) of the inclusive range [top, bottom].
InRange(m, top, bottom) == {i \in top..bottom : i < m.nlay}

\* sum over the layers of idx of thickn * value.
RECURSIVE Weighted(_, _, _)
Weighted(m, arr, idx) ==
    IF idx = {} THEN R(0)
    ELSE LET i == CHOOSE j \in idx : TRUE
         IN  FAdd(FMul(m.thickn[i + 1], arr[i + 1]), Weighted(m, arr, idx \ {i}))

\* C5: combine_layers(top, bottom) over existing isotropic layers of one
\* strike and one dip leaves one layer at top with the summed thickness,
\* the thickness-weighted averages of vp, vs and rho, and the ani, trend,
\* plunge, strike, dip and flag of the old layer top; nlay drops by
\* bottom - top and the layers outside the range keep their attributes and
\* their order.
C5_CombineLayers ==
    [][(/\ last'.op = "combine_layers"
        /\ last'.top < last'.bottom
        /\ last'.bottom < self.nlay
        /\ \A i \in last'.top..last'.bottom :
              /\ self.flag[i + 1] # R(0)
              /\ self.strike[i + 1] = self.strike[last'.top + 1]
              /\ self.dip[i + 1] = self.dip[last'.top + 1]) =>
         LET top == last'.top
             bottom == last'.bottom
             total == Weighted(self, [i \in 1..self.nlay |-> R(1)], top..bottom)
         IN  /\ self'.nlay = self.nlay - (bottom - top)
             /\ self'.thickn[top + 1] = total
             /\ total # R(0) =>
                   /\ FMul(self'.vp[top + 1], total) = Weighted(self, self.vp, top..bottom)
                   /\ FMul(self'.vs[top + 1], total) = Weighted(self, self.vs, top..bottom)
                   /\ FMul(self'.rho[top + 1], total) = Weighted(self, self.rho, top..bottom)
             /\ \A att \in {"ani", "trend", "plunge", "strike", "dip", "flag"} :
                   Attr(self', att)[top + 1] = Attr(self, att)[top + 1]
             /\ \A i \in 1..top : Layer(self', i) = Layer(self, i)
             /\ \A i \in (bottom + 2)..self.nlay :
                   Layer(self', i - (bottom - top)) = Layer(self, i)]_vars

\* C5 witness: the two upper layers of a three-layer model were merged.
C5_Witness ==
    /\ last.op = "combine_layers"
    /\ last.top = 0
    /\ last.bottom = 1
    /\ last.exc = "none"
    /\ self.nlay = 2
    /\ self.thickn[1] = R(40000)
    /\ self.vp[1] = R(6500)

\* C6: combine_layers(top, bottom) raises, and merges nothing, when
\* bottom <= top, when a layer of the range is flagged anisotropic, or when
\* strike or dip is not the same for every layer of the range.
C6_CombineFails ==
    [][(/\ last'.op = "combine_layers"
        /\ \/ last'.bottom <= last'.top
           \/ \E i \in InRange(self, last'.top, last'.bottom) : self.flag[i + 1] = R(0)
           \/ \E i, j \in InRange(self, last'.top, last'.bottom) :
                 \/ self.strike[i + 1] # self.strike[j + 1]
                 \/ self.dip[i + 1] # self.dip[j + 1]) =>
         (last'.exc # "none" /\ self' = self)]_vars

\* C6 witness: a merge of two isotropic layers of one dip was refused
\* because their strikes differ.
C6_Witness ==
    /\ last.op = "combine_layers"
    /\ last.exc = "ValueError"
    /\ last.msg = "All layers must have the same strike"
    /\ \A i \in 1..self.nlay : self.flag[i] = R(1) /\ self.dip[i] = self.dip[1]

\* The messages of the errors combine_layers raises for data it may not merge.
DomainErrors ==
    {"Can only combine isotropic layers",
     "All layers must have the same dip",
     "All layers must have the same strike"}

\* C7 as claimed: the error combine_layers raises for an anisotropic layer
\* or for differing strike or dip is of another kind than the errors of a
\* bad call: update with an unknown fix mode, change with a directive
\* without an operator.
C7_DistinctErrorKinds ==
    (last.op = "combine_layers" /\ last.msg \in DomainErrors) =>
        /\ last.exc # update(self, "rho").exc
        /\ last.exc # change(self, <<"t", "0">>).exc

\* C7 as amended: that error is a ValueError, the kind update raises for an
\* unknown fix mode; the two differ in their message only.
C7_SameKindOtherMessage ==
    (last.op = "combine_layers" /\ last.msg \in DomainErrors) =>
        /\ last.exc = "ValueError"
        /\ update(self, "rho").exc = last.exc
        /\ update(self, "rho").msg # last.msg

\* C7 witness: a merge was refused for an anisotropic layer.
C7_Witness ==
    /\ last.op = "combine_layers"
    /\ last.msg = "Can only combine isotropic layers"
    /\ last.exc = "ValueError"

\* C8: construction fails whenever the lengths of thickn, vp and vs are not
\* all the same.
C8_CtorRejectsLengths ==
    (/\ last.op = "__init__"
     /\ ~(Len(args.thickn) = Len(args.vp) /\ Len(args.vp) = Len(args.vs))) =>
        last.exc # "none"

\* No fix mode: None, or a value Python takes for false.
NoFix(fix) == fix \in {"None", ""}

\* C9: update(fix) recomputes one attribute for every layer and leaves the
\* other user attributes alone: without a fix mode vpvs = vp / vs; with
\* 'vp', vs = vp / vpvs; with 'vs', vp = vs * vpvs; any other fix mode
\* raises and changes nothing, neither user attribute nor mirror.
C9_Update ==
    [][last'.op = "update" =>
         LET fix == last'.fix
             target == IF NoFix(fix) THEN "vpvs" ELSE IF fix = "vp" THEN "vs" ELSE "vp"
         IN  IF ~NoFix(fix) /\ fix \notin {"vp", "vs"}
             THEN last'.exc # "none" /\ self' = self
             ELSE /\ \A att \in UserAtts \ {target} : Attr(self', att) = Attr(self, att)
                  /\ Len(Attr(self', target)) = self.nlay
                  /\ \A i \in 1..self.nlay :
                        CASE target = "vpvs" ->
                               FMul(self'.vpvs[i], self.vs[i]) = self.vp[i]
                          [] target = "vs" ->
                               FMul(self'.vs[i], self.vpvs[i]) = self.vp[i]
                          [] target = "vp" ->
                               FDiv(self'.vp[i], self.vs[i]) = self.vpvs[i]]_vars

\* C9 witness: update('vp') has replaced the S velocity of the top layer
\* by vp / vpvs = 6000 / 1.5.
C9_Witness ==
    /\ last.op = "update"
    /\ last.fix = "vp"
    /\ last.exc = "none"
    /\ self.vp[1] = R(6000)
    /\ self.vpvs[1] = Q(3, 2)
    /\ self.vs[1] = R(4000)

\* What each single well-formed directive of Commands asks for: the
\* attribute, the layer, the operator and the value in m, m/s, degrees,
\* percent or as a ratio.
Asked ==
    {[commands |-> <<"t", "0", "+", "1", "0">>, att |-> "thickn", lay |-> 0,
      sign |-> "+", val |-> R(10000)],
     [commands |-> <<"v", "p", "0", "=", "6", ".", "5">>, att |-> "vp", lay |-> 0,
      sign |-> "=", val |-> R(6500)],
     [commands |-> <<"v", "s", "1", "-", "1">>, att |-> "vs", lay |-> 1,
      sign |-> "-", val |-> R(1000)],
     [commands |-> <<"p", "s", "p", "0", "+", "0", ".", "5">>, att |-> "vpvs", lay |-> 0,
      sign |-> "+", val |-> Q(1, 2)],
     [commands |-> <<"p", "s", "s", "1", "=", "2", ".", "5">>, att |-> "vpvs", lay |-> 1,
      sign |-> "=", val |-> Q(5, 2)],
     [commands |-> <<"s", "1", "=", "4", "5">>, att |-> "strike", lay |-> 1,
      sign |-> "=", val |-> R(45)],
     [commands |-> <<"d", "1", "+", "5">>, att |-> "dip", lay |-> 1,
      sign |-> "+", val |-> R(5)],
     [commands |-> <<"a", "0", "=", "5">>, att |-> "ani", lay |-> 0,
      sign |-> "=", val |-> R(5)],
     [commands |-> <<"a", "1", "=", "0">>, att |-> "ani", lay |-> 1,
      sign |-> "=", val |-> R(0)],
     [commands |-> <<"t", "r", "0", "-", "3", "0">>, att |-> "trend", lay |-> 0,
      sign |-> "-", val |-> R(30)],
     [commands |-> <<"p", "l", "1", "=", "1", "0">>, att |-> "plunge", lay |-> 1,
      sign |-> "=", val |-> R(10)]}

BadDirectives ==
    {<<"x", "0", "=", "1">>,
     <<"t", "0">>,
     <<"t", "0", "=", "=", "1">>,
     <<"t", "=", "5">>,
     <<"t", "0", ".", "5", "=", "1">>,
     <<"t", "0", "=", "x">>}

\* C11: change raises for every directive that is malformed or whose key is
\* unknown, and such a directive modifies no attribute of the Model.
C11_BadDirectiveFails ==
    [][(last'.op = "change" /\ last'.commands \in BadDirectives /\ ops' = ops + 1)
         => /\ last'.exc # "none"
            /\ self' = self]_vars

\* C11 witness: a second call, a change with a bad directive, has raised on
\* a Model that an earlier call had modified.
C11_Witness ==
    /\ ops = 2
    /\ last.op = "change"
    /\ last.commands \in BadDirectives
    /\ last.exc # "none"
    /\ self.thickn # args.thickn

\* ================================================================= Geometry
\* The largest number of backazimuths, slownesses and offsets passed in.
MaxIn == 3

\* Geometry arguments: k backazimuths 0, 90, 180, .. (deg), k slownesses
\* 0.04, 0.06, 0.08, .. (s/km), k offsets 100, 200, .. (m).
Bazs(k) == [i \in 1..k |-> R(90 * (i - 1))]

Slows(k) == [i \in 1..k |-> Q(2 * (i + 1), 100)]

Offsets(k) == [i \in 1..k |-> R(100 * i)]

\* A bare int or float argument; v holds the number.
Scalar(x) == [tag |-> "scalar", v |-> <<x>>]

\* An int or float argument is wrapped in a list.
AsList(a) == IF a.tag = "scalar" THEN <<a.v[1]>> ELSE a.v

\* Mutant of Grid: the lists are paired one to one up to the shorter one.
Grid_paired(baz, slow) ==
    [k \in 1..(IF Len(baz) < Len(slow) THEN Len(baz) ELSE Len(slow)) |->
        <<baz[k], slow[k]>>]

\* [(bb, ss) for ss in slow for bb in baz]
Grid(baz, slow) ==
    [k \in 1..(Len(baz) * Len(slow)) |->
        <<baz[((k - 1) % Len(baz)) + 1], slow[((k - 1) \div Len(baz)) + 1]>>]

\* [(bb, ss) for bb, ss in zip(baz, slow)]
Zip(baz, slow) == [k \in 1..Len(baz) |-> <<baz[k], slow[k]>>]

\* np.full(n, x)
Full(n, x) == [i \in 1..n |-> x]

\* The attributes no Geometry has: the constructor raised.
NoGeometry ==
    [geom |-> <<>>, baz |-> <<>>, slow |-> <<>>, ntr |-> -1, dx |-> <<>>,
     dy |-> <<>>, fbaz |-> <<>>, fslow |-> <<>>, fdx |-> <<>>, fdy |-> <<>>]

\* Geometry.__init__(baz, slow, dx, dy, maxtr).
Geometry(a) ==
    LET baz0 == AsList(a.baz)
        slow0 == AsList(a.slow)
        geom == IF Len(baz0) # Len(slow0) THEN Grid(baz0, slow0) ELSE Zip(baz0, slow0)
        ntr == Len(geom)
    IN  IF geom = <<>>
        THEN Raise(NoGeometry, "ValueError", "not enough values to unpack")
        ELSE IF (Len(a.dx) # ntr /\ a.dx = <<>>) \/ (Len(a.dy) # ntr /\ a.dy = <<>>)
        THEN Raise(NoGeometry, "IndexError", "index 0 is out of bounds")
        ELSE IF a.maxtr - ntr < 0
        THEN Raise(NoGeometry, "ValueError", "negative dimensions are not allowed")
        ELSE
        LET baz == [k \in 1..ntr |-> geom[k][1]]
            slow == [k \in 1..ntr |-> geom[k][2]]
            dx == IF Len(a.dx) # ntr THEN Full(ntr, a.dx[1]) ELSE a.dx
            dy == IF Len(a.dy) # ntr THEN Full(ntr, a.dy[1]) ELSE a.dy
            tail == Zeros(a.maxtr - ntr)
        IN  Ok([geom |-> geom, baz |-> baz, slow |-> slow, ntr |-> ntr,
                dx |-> dx, dy |-> dy,
                fbaz |-> [i \in 1..a.maxtr |-> Radians((baz \o tail)[i])],
                fslow |-> [i \in 1..a.maxtr |-> FMul((slow \o tail)[i], Q(1, 1000))],
                fdx |-> dx \o tail,
                fdy |-> dy \o tail])

\* The arguments Geometry is constructed with: lists of 0..MaxIn values or
\* one bare number, offsets of 0..MaxIn values, a capacity that the grid of
\* the longest lists fits and one it does not.
GeometryArgs ==
    [baz : {Given(Bazs(k)) : k \in 0..MaxIn} \cup {Scalar(R(45))},
     slow : {Given(Slows(k)) : k \in 0..MaxIn} \cup {Scalar(Q(6, 100))},
     dx : {Offsets(k) : k \in 0..MaxIn},
     dy : {<<R(0)>>, Offsets(2)},
     maxtr : {MaxIn + 1, MaxIn * MaxIn}]

InitGeometry ==
    /\ args \in GeometryArgs
    /\ self = NoGeometry
    /\ last = Call("none", -1, -1, -1, "", <<>>, Ok(NoGeometry))
    /\ ops = 0

ConstructGeometry ==
    LET r == Geometry(args)
    IN  /\ last.op = "none"
        /\ self' = r.self
        /\ last' = Call("Geometry", -1, -1, -1, "", <<>>, r)
        /\ UNCHANGED <<args, ops>>

NextGeometry == ConstructGeometry

SpecGeometry == InitGeometry /\ [][NextGeometry]_vars

\* C12: a constructed Geometry holds every (backazimuth, slowness)
\* combination exactly once when the two lists differ in length and the
\* i-th backazimuth with the i-th slowness when they do not; ntr, baz, slow,
\* dx and dy all have that many entries, an offset list of one entry being
\* repeated for every sample.
C12_GeometrySamples ==
    (last.op = "Geometry" /\ last.exc = "none") =>
        LET b == AsList(args.baz)
            s == AsList(args.slow)
        IN  /\ IF Len(b) # Len(s)
               THEN /\ self.ntr = Len(b) * Len(s)
                    /\ \A i \in 1..Len(b), j \in 1..Len(s) :
                          Cardinality({k \in 1..Len(self.geom) :
                                          self.geom[k] = <<b[i], s[j]>>}) = 1
               ELSE /\ self.ntr = Len(b)
                    /\ \A i \in 1..Len(b) : self.geom[i] = <<b[i], s[i]>>
            /\ Len(self.geom) = self.ntr
            /\ Len(self.baz) = self.ntr
            /\ Len(self.slow) = self.ntr
            /\ Len(self.dx) = self.ntr
            /\ Len(self.dy) = self.ntr
            /\ \A k \in 1..self.ntr :
                  /\ self.baz[k] = self.geom[k][1]
                  /\ self.slow[k] = self.geom[k][2]
                  /\ Len(args.dx) = 1 => self.dx[k] = args.dx[1]
                  /\ Len(args.dy) = 1 => self.dy[k] = args.dy[1]

\* C12 witness: three backazimuths and two slownesses with one offset have
\* given a Geometry of six samples.
C12_Witness ==
    /\ last.op = "Geometry"
    /\ last.exc = "none"
    /\ Len(AsList(args.baz)) = 3
    /\ Len(AsList(args.slow)) = 2
    /\ Len(args.dx) = 1
    /\ self.ntr = 6

\* ============================================================== read_traces
\* The capacity of the solver's output array: samples and traces per
\* component (maxsamp and maxtr of the solver's params.h).
MaxSamp == 4

MaxTr == 3

\* The output array of call_seis_spread, shape (3, maxsamp, maxtr): every
\* element has a value of its own, no sample is zero and no trace has a
\* zero in its spectrum.
SolverOutput ==
    [c \in 1..3 |-> [s \in 1..MaxSamp |-> [t \in 1..MaxTr |->
        R(c + 3 * (s - 1) * (s - 1) + 3 * MaxSamp * MaxSamp * (t - 1))]]]

Min(a, b) == IF a < b THEN a ELSE b

\* Mutant of Flatten: the cropped block is flattened in row-major order.
Flatten_row_major(block, npts, ntr) ==
    [k \in 1..(npts * ntr) |-> block[((k - 1) \div ntr) + 1][((k - 1) % ntr) + 1]]

\* traces[c, :npts, :ntr].reshape(npts*ntr, order='F'): the first index of
\* the block (the sample) varies fastest.
Flatten(block, npts, ntr) ==
    [k \in 1..(npts * ntr) |-> block[((k - 1) % npts) + 1][((k - 1) \div npts) + 1]]

\* np.array([npts*[tr] for tr in range(ntr)]).reshape(npts*ntr)
TraceIds(npts, ntr) == [k \in 1..(npts * ntr) |-> (k - 1) \div npts]

\* df[df.itr == itr].column.values: the rows of a column whose trace id is
\* itr, in the order of the frame.
RECURSIVE RowsOf(_, _, _, _)
RowsOf(column, ids, itr, k) ==
    IF k > Len(ids) THEN <<>>
    ELSE (IF ids[k] = itr THEN <<column[k]>> ELSE <<>>) \o RowsOf(column, ids, itr, k + 1)

\* The keyword arguments read_traces accepts.
kwlist == {"traces", "dt", "geom", "rot", "shift", "npts", "ntr"}

\* The component names of a rotation.
component(rot) ==
    CASE rot = 0 -> <<"N", "E", "Z">>
      [] rot = 1 -> <<"R", "T", "Z">>
      [] rot = 2 -> <<"P", "V", "H">>

\* np.arange(npts)*dt - shift
ReadTaxis(npts, dt, shift) == [i \in 1..npts |-> FSub(FMul(R(i - 1), dt), shift)]

\* Trace(data=data, header=_make_stats(...)): the trace container fills in
\* npts and keeps the list of the processing applied to the trace; the
\* start time is a wall-clock stamp of no meaning and is left out.
MakeTrace(data, dt, slow, baz, channel, taxis) ==
    [data |-> data,
     stats |-> [baz |-> baz, slow |-> slow, station |-> "synt", network |-> "",
                delta |-> dt, channel |-> channel, npts |-> Len(data),
                taxis |-> taxis, processing |-> <<>>]]

\* read_traces(traces, **kwargs): the list of Streams, each a list of three
\* Traces.
read_traces(a) ==
    LET npts == a.npts
        ntr == a.ntr
        ns == Min(npts, Len(a.traces[1]))
        nt == Min(ntr, Len(a.traces[1][1]))
        Block(c) == [s \in 1..ns |-> [t \in 1..nt |-> a.traces[c][s][t]]]
    IN  IF ~(a.kwargs \subseteq kwlist)
        THEN Raise(<<>>, "Exception", "Incorrect kwarg: ")
        ELSE IF ns * nt # npts * ntr
        THEN Raise(<<>>, "ValueError", "cannot reshape array")
        ELSE IF a.rot \notin {0, 1, 2}
        THEN Raise(<<>>, "Exception", "invalid rot value: not in 0, 1, 2")
        ELSE IF npts * ntr = 0
        THEN Raise(<<>>, "TypeError", "np.max of an empty column is no integer")
        ELSE IF Len(a.geom) < ntr
        THEN Raise(<<>>, "IndexError", "list index out of range")
        ELSE
        LET ids == TraceIds(npts, ntr)
            trace1 == Flatten(Block(1), npts, ntr)
            trace2 == Flatten(Block(2), npts, ntr)
            trace3 == Flatten(Block(3), npts, ntr)
            n == Len(RowsOf(trace1, ids, 0, 1))
            taxis == ReadTaxis(n, a.dt, a.shift)
            Tr(column, itr, c) ==
                MakeTrace(RowsOf(column, ids, itr, 1), a.dt, a.geom[itr + 1][2],
                          a.geom[itr + 1][1], <<"B", "H", component(a.rot)[c]>>, taxis)
        IN  Ok([i \in 1..ntr |->
                  <<Tr(trace1, i - 1, 1), Tr(trace2, i - 1, 2), Tr(trace3, i - 1, 3)>>])

\* The arguments read_traces is called with: sample and trace counts from 0
\* to one past the capacity, the three rotations and one that is none, a
\* geom list of one pair or of one pair per trace of the array, one keyword
\* too many or not.
ReadArgs ==
    [traces : {SolverOutput},
     kwargs : {kwlist \ {"traces"}, (kwlist \ {"traces"}) \cup {"wvtype"}},
     geom : {Zip(Bazs(k), Slows(k)) : k \in {1, MaxTr}},
     dt : {Q(1, 40)},
     rot : 0..3,
     shift : {Q(1, 40)},
     npts : 0..(MaxSamp + 1),
     ntr : 0..(MaxTr + 1)]

InitRead ==
    /\ args \in ReadArgs
    /\ self = <<>>
    /\ last = Call("none", -1, -1, -1, "", <<>>, Ok(<<>>))
    /\ ops = 0

ReadTraces ==
    LET r == read_traces(args)
    IN  /\ last.op = "none"
        /\ self' = r.self
        /\ last' = Call("read_traces", -1, -1, -1, "", <<>>, r)
        /\ UNCHANGED <<args, ops>>

NextRead == ReadTraces

SpecRead == InitRead /\ [][NextRead]_vars

\* C14: read_traces returns ntr records in trace order; record t holds
\* three waveforms of npts samples, sample s of component c being
\* traces[c, s, t]; no element of the array outside the first npts samples
\* and ntr traces is in a record; record t carries geom[t].
C14_ReadTraces ==
    (last.op = "read_traces" /\ last.exc = "none") =>
        /\ Len(self) = args.ntr
        /\ \A t \in 1..Len(self) :
              /\ Len(self[t]) = 3
              /\ \A c \in 1..3 :
                    /\ Len(self[t][c].data) = args.npts
                    /\ \A s \in 1..args.npts :
                          self[t][c].data[s] = args.traces[c][s][t]
                    /\ \A s \in 1..Len(self[t][c].data) :
                          \A c2 \in 1..3, s2 \in 1..MaxSamp, t2 \in 1..MaxTr :
                              (s2 > args.npts \/ t2 > args.ntr)
                                  => self[t][c].data[s] # args.traces[c2][s2][t2]
                    /\ self[t][c].stats.baz = args.geom[t][1]
                    /\ self[t][c].stats.slow = args.geom[t][2]

\* C14 witness: two traces of three samples have been read from the array,
\* which holds more of both.
C14_Witness ==
    /\ last.op = "read_traces"
    /\ last.exc = "none"
    /\ args.ntr = 2
    /\ args.npts = 3
    /\ Len(self) = 2
    /\ self[2][3].data[3] = args.traces[3][3][2]

\* ================================================================ numpy.fft
\* A complex number is <<re, im>>, both floats.
Complex(x) == <<x, R(0)>>

CAdd(a, b) == <<FAdd(a[1], b[1]), FAdd(a[2], b[2])>>

CMul(a, b) ==
    <<FSub(FMul(a[1], b[1]), FMul(a[2], b[2])),
      FAdd(FMul(a[1], b[2]), FMul(a[2], b[1]))>>

\* -a
CNeg(a) == <<FSub(R(0), a[1]), FSub(R(0), a[2])>>

\* np.divide(a, b) on complex numbers; a division by 0 divides both parts
\* by the real 0.
CDiv(a, b) ==
    IF b = <<R(0), R(0)>> THEN <<FDiv(a[1], R(0)), FDiv(a[2], R(0))>>
    ELSE LET den == FAdd(FMul(b[1], b[1]), FMul(b[2], b[2]))
         IN  <<FDiv(FAdd(FMul(a[1], b[1]), FMul(a[2], b[2])), den),
               FDiv(FSub(FMul(a[2], b[1]), FMul(a[1], b[2])), den)>>

RECURSIVE CSum(_)
CSum(arr) ==
    IF arr = <<>> THEN Complex(R(0))
    ELSE CAdd(CSum(SubSeq(arr, 1, Len(arr) - 1)), arr[Len(arr)])

\* The transform lengths whose roots of unity are 1, -i, -1, i, so that the
\* transform is exact in rational arithmetic.
FftSizes == {1, 2, 4}

\* exp(-2 pi i k / n) for n in FftSizes and 0 <= k.
Twiddle(n, k) ==
    LET j == (k * (4 \div n)) % 4
    IN  CASE j = 0 -> <<R(1), R(0)>>
          [] j = 1 -> <<R(0), R(-1)>>
          [] j = 2 -> <<R(-1), R(0)>>
          [] j = 3 -> <<R(0), R(1)>>

\* The array of the values f[1], .., f[n], each computed once.
Array(f, n) == SubSeq(f, 1, n)

\* fft(x) of a real array x.
fft(x) ==
    LET xs == Array(x, Len(x))
        n == Len(xs)
    IN  Array([m \in 1..n |->
                  CSum(Array([k \in 1..n |->
                                 CMul(Complex(xs[k]), Twiddle(n, (m - 1) * (k - 1)))], n))],
              n)

\* ifft(X) of a complex array X.
ifft(X) ==
    LET Xs == Array(X, Len(X))
        n == Len(Xs)
    IN  Array([k \in 1..n |->
                  CMul(Complex(Q(1, n)),
                       CSum(Array([m \in 1..n |->
                                      CMul(Xs[m], Twiddle(n, (n - (((m - 1) * (k - 1)) % n)) % n))],
                                  n)))],
              n)

\* np.real(x)
real(x) == Array([i \in 1..Len(x) |-> x[i][1]], Len(x))

\* fftshift(x): the array rolled by len(x) // 2.
fftshift(x) ==
    Array([i \in 1..Len(x) |-> x[((i - 1 - (Len(x) \div 2) + Len(x)) % Len(x)) + 1]], Len(x))

\* np.divide(num, den) elementwise.
Divide(num, den) == Array([i \in 1..Len(num) |-> CDiv(num[i], den[i])], Len(num))

\* Mutant of Deconvolve: numerator and denominator are exchanged.
Deconvolve_inverse(num, den) == fftshift(real(ifft(Divide(den, num))))

\* fftshift(np.real(ifft(np.divide(num, den)))) for two spectra.
Deconvolve(num, den) == fftshift(real(ifft(Divide(num, den))))

\* =============================================================== StreamList
\* stream.select(component=c): the traces of a stream whose channel ends
\* in c.
select(stream, c) == SelectSeq(stream, LAMBDA tr : tr.stats.channel[Len(tr.stats.channel)] = c)

\* np.arange(-npts/2., npts/2.)*delta
RfTaxis(npts, delta) ==
    [i \in 1..npts |-> FMul(FAdd(FSub(R(0), Q(npts, 2)), R(i - 1)), delta)]

\* The component names calculate_rfs selects for a rotation: the numerator
\* of the first and of the second receiver function, and the third.
cmpts(rot) ==
    CASE rot = 1 -> <<"R", "T", "Z">>
      [] rot = 2 -> <<"V", "H", "P">>

\* The spectral division of calculate_rfs for one wave type: the data of
\* the pair (rfr, rft) from the three spectra.
Spectral(wvtype, ft_rfr, ft_rft, ft_ztr) ==
    CASE wvtype = "P" ->
           <<Deconvolve(ft_rfr, ft_ztr), Deconvolve(ft_rft, ft_ztr)>>
      [] wvtype = "SV" ->
           <<Deconvolve([i \in 1..Len(ft_ztr) |-> CNeg(ft_ztr[i])], ft_rfr),
             Zeros(Len(ft_rft))>>
      [] wvtype = "SH" ->
           <<Zeros(Len(ft_rfr)),
             Deconvolve([i \in 1..Len(ft_ztr) |-> CNeg(ft_ztr[i])], ft_rft)>>

\* Mutant of RfStream: the time axis of the displacement traces is kept.
RfStream_keeps_taxis(stream, c, wvtype) ==
    LET rtr == select(stream, c[1])[1]
        ttr == select(stream, c[2])[1]
        ztr == select(stream, c[3])[1]
        rf == Spectral(wvtype, fft(rtr.data), fft(ttr.data), fft(ztr.data))
    IN  <<[data |-> rf[1],
           stats |-> [rtr.stats EXCEPT !.channel = <<"R", "F", c[1]>>]],
          [data |-> rf[2],
           stats |-> [ttr.stats EXCEPT !.channel = <<"R", "F", c[2]>>]]>>

\* One pass of the loop of calculate_rfs over a stream that holds the
\* three components and a known wave type: the Stream of the pair.
RfStream(stream, c, wvtype) ==
    LET npts == stream[1].stats.npts
        taxis == RfTaxis(npts, stream[1].stats.delta)
        rtr == select(stream, c[1])[1]
        ttr == select(stream, c[2])[1]
        ztr == select(stream, c[3])[1]
        rf == Spectral(wvtype, fft(rtr.data), fft(ttr.data), fft(ztr.data))
    IN  <<[data |-> rf[1],
           stats |-> [rtr.stats EXCEPT !.channel = <<"R", "F", c[1]>>, !.taxis = taxis]],
          [data |-> rf[2],
           stats |-> [ttr.stats EXCEPT !.channel = <<"R", "F", c[2]>>, !.taxis = taxis]]>>

\* The loop of calculate_rfs from stream k on; rflist holds the pairs so
\* far.  The first stream that lacks a component or meets an unknown wave
\* type ends the loop with its exception.
RECURSIVE RfLoop(_, _, _, _)
RfLoop(sl, c, k, rflist) ==
    IF k > Len(sl.streams) THEN Ok([sl EXCEPT !.rfs = rflist, !.has_rfs = TRUE])
    ELSE IF \E i \in 1..3 : select(sl.streams[k], c[i]) = <<>>
    THEN Raise(sl, "IndexError", "list index out of range")
    ELSE IF sl.args.wvtype \notin {"P", "SV", "SH"}
    THEN Raise(sl, "Exception", "wave typye invalid: ")
    ELSE RfLoop(sl, c, k + 1, Append(rflist, RfStream(sl.streams[k], c, sl.args.wvtype)))

\* StreamList.calculate_rfs().
calculate_rfs(sl) ==
    IF sl.args.rot = 0
    THEN Raise(sl, "Exception", "Receiver functions cannot be calculated with 'rot == 0'")
    ELSE IF sl.args.rot \notin {1, 2}
    THEN Raise(sl, "Exception", "rotation ID invalid: ")
    ELSE RfLoop(sl, cmpts(sl.args.rot), 1, <<>>)

\* The filter types of the trace container.
FilterTypes == {"bandpass", "lowpass", "highpass"}

\* stream.filter(ftype): the trace container filters every trace in place
\* and notes the filter in stats.processing; an unknown type raises before
\* anything is filtered.  The filtered samples are the container's
\* business: data keeps the samples the filter was given.
StreamFilter(stream, ftype) ==
    [i \in 1..Len(stream) |->
        [stream[i] EXCEPT !.stats.processing = Append(@, ftype)]]

\* StreamList.filter_streams(ftype) and StreamList.filter_rfs(ftype).
filter_streams(sl, ftype) ==
    IF sl.streams # <<>> /\ ftype \notin FilterTypes
    THEN Raise(sl, "ValueError", "Filter type is not valid")
    ELSE Ok([sl EXCEPT !.streams = [i \in 1..Len(@) |-> StreamFilter(@[i], ftype)]])

filter_rfs(sl, ftype) ==
    IF ~sl.has_rfs
    THEN Raise(sl, "AttributeError", "'StreamList' object has no attribute 'rfs'")
    ELSE IF sl.rfs # <<>> /\ ftype \notin FilterTypes
    THEN Raise(sl, "ValueError", "Filter type is not valid")
    ELSE Ok([sl EXCEPT !.rfs = [i \in 1..Len(@) |-> StreamFilter(@[i], ftype)]])

\* StreamList.filter(typ, ftype).
filter(sl, typ, ftype) ==
    IF typ = "streams" THEN filter_streams(sl, ftype)
    ELSE IF typ = "rfs"
    THEN LET r == filter_rfs(sl, ftype)
         IN  IF r.exc # "none" THEN Raise(r.self, "Exception", "Cannot filter 'rfs'") ELSE r
    ELSE IF typ = "all"
    THEN LET r1 == filter_streams(sl, ftype)
         IN  IF r1.exc # "none" THEN r1
             ELSE LET r2 == filter_rfs(r1.self, ftype)
                  IN  IF r2.exc # "none" THEN Ok(r2.self) ELSE r2
    ELSE Raise(sl, "TypeError", "'typ' has to be either 'streams', 'rfs' or 'all'")

\* StreamList(model, geom, streams, args); the attribute rfs exists once
\* calculate_rfs has set it (has_rfs).
StreamList(geom, streams, a) ==
    [geom |-> geom, streams |-> streams, args |-> a, rfs |-> <<>>, has_rfs |-> FALSE]

\* The runs a StreamList comes from: the rotation and wave type of its
\* args, the rotation its streams were read with, sample counts the
\* transform is exact for, one trace or two, and two time shifts, the
\* second half the length of two samples.
RfArgs ==
    [rot : 0..3,
     wvtype : {"P", "SV", "SH", "SP"},
     labels : {1, 2},
     npts : {n \in FftSizes : n <= MaxSamp},
     ntr : {1, 2},
     dt : {Q(1, 40)},
     shift : {Q(1, 40), Q(1, 20)}]

\* The streams of a run, as read_traces returns them.
StreamsOf(a) ==
    read_traces([traces |-> SolverOutput, kwargs |-> kwlist \ {"traces"},
                 geom |-> Zip(Bazs(MaxTr), Slows(MaxTr)), dt |-> a.dt,
                 rot |-> a.labels, shift |-> a.shift, npts |-> a.npts,
                 ntr |-> a.ntr]).self

InitRfs ==
    /\ args \in RfArgs
    /\ self = StreamList(Zip(Bazs(MaxTr), Slows(MaxTr)), StreamsOf(args),
                         [rot |-> args.rot, wvtype |-> args.wvtype])
    /\ last = Call("none", -1, -1, -1, "", <<>>, Ok(<<>>))
    /\ ops = 0

CalculateRfs ==
    LET r == calculate_rfs(self)
    IN  /\ ops < MaxOps
        /\ self' = r.self
        /\ last' = Call("calculate_rfs", -1, -1, -1, "", <<>>, r)
        /\ ops' = ops + 1
        /\ UNCHANGED args

NextRfs == CalculateRfs

SpecRfs == InitRfs /\ [][NextRfs]_vars

\* The circular convolution of two arrays of one length.
CircConv(a, b) ==
    [k \in 1..Len(a) |->
        FSum([j \in 1..Len(a) |-> FMul(a[j], b[((k - j + Len(a)) % Len(a)) + 1])])]

\* The array whose lag-0 sample, held at index len // 2, is moved to the
\* front.
Uncentred(x) == [i \in 1..Len(x) |-> x[((i - 1 + (Len(x) \div 2)) % Len(x)) + 1]]

\* rf is num deconvolved by den: rf, with lag 0 at its centre, convolved
\* with den gives num.
DeconvolvedBy(rf, num, den) ==
    /\ Len(rf) = Len(num)
    /\ \A i \in 1..Len(num) : CircConv(Uncentred(rf), den)[i] = num[i]

Negated(x) == [i \in 1..Len(x) |-> FSub(R(0), x[i])]

\* The samples of the component of a stream that is named ch.
DataOf(stream, ch) ==
    stream[CHOOSE i \in 1..Len(stream) : stream[i].stats.channel[3] = ch].data

\* The radial, transverse and vertical component of a rotation.
RTZ(rot) == IF rot = 1 THEN <<"R", "T", "Z">> ELSE <<"V", "H", "P">>

\* C15: calculate_rfs dispatches on the wave type for every record.  P: the
\* radial and the transverse receiver function are the component
\* deconvolved by the vertical one.  SV: the radial one is the negated
\* vertical deconvolved by the radial, the transverse is all zero.  SH: the
\* transverse one is the negated vertical deconvolved by the transverse,
\* the radial is all zero.  Another wave type raises, and rotation 0 raises
\* before a record is processed.
C15_WaveTypeDispatch ==
    [][(last'.op = "calculate_rfs" /\ ops' = ops + 1) =>
         IF self.args.rot = 0
         THEN last'.exc # "none" /\ self' = self
         ELSE IF self.args.rot \in {1, 2} /\ args.labels = self.args.rot
         THEN LET c == RTZ(self.args.rot)
                  Rad(k) == DataOf(self.streams[k], c[1])
                  Tra(k) == DataOf(self.streams[k], c[2])
                  Ver(k) == DataOf(self.streams[k], c[3])
                  Rfr(k) == self'.rfs[k][1].data
                  Rft(k) == self'.rfs[k][2].data
              IN  IF self.args.wvtype \notin {"P", "SV", "SH"}
                  THEN last'.exc # "none" /\ self' = self
                  ELSE /\ last'.exc = "none"
                       /\ Len(self'.rfs) = Len(self.streams)
                       /\ \A k \in 1..Len(self.streams) :
                             CASE self.args.wvtype = "P" ->
                                    /\ DeconvolvedBy(Rfr(k), Rad(k), Ver(k))
                                    /\ DeconvolvedBy(Rft(k), Tra(k), Ver(k))
                               [] self.args.wvtype = "SV" ->
                                    /\ DeconvolvedBy(Rfr(k), Negated(Ver(k)), Rad(k))
                                    /\ Rft(k) = Zeros(Len(Tra(k)))
                               [] self.args.wvtype = "SH" ->
                                    /\ Rfr(k) = Zeros(Len(Rad(k)))
                                    /\ DeconvolvedBy(Rft(k), Negated(Ver(k)), Tra(k))
         ELSE TRUE]_vars

\* C15 witness: receiver functions of two records of four samples have
\* been computed for wave type SV; the transverse one is all zero, the
\* radial one is not.
C15_Witness ==
    /\ last.op = "calculate_rfs"
    /\ last.exc = "none"
    /\ self.args.wvtype = "SV"
    /\ args.npts = 4
    /\ Len(self.rfs) = 2
    /\ self.rfs[2][2].data = Zeros(4)
    /\ self.rfs[2][1].data # Zeros(4)

\* The numerator component of receiver function j for a wave type, "" where
\* none is computed.
Numerator(rot, wvtype, j) ==
    CASE wvtype = "P" -> RTZ(rot)[j]
      [] wvtype = "SV" -> IF j = 1 THEN RTZ(rot)[3] ELSE ""
      [] wvtype = "SH" -> IF j = 2 THEN RTZ(rot)[3] ELSE ""

\* C16 as stated: each receiver-function pair has the time axis of its
\* input record (sample index * dt - shift), each waveform has the record's
\* sample count, and the channels are RF + the names of the numerator
\* components.
C16_InputTimeAxis ==
    (last.op = "calculate_rfs" /\ last.exc = "none") =>
        \A k \in 1..Len(self.rfs), j \in 1..2 :
            /\ self.rfs[k][j].stats.taxis = self.streams[k][1].stats.taxis
            /\ \A i \in 1..args.npts :
                  self.rfs[k][j].stats.taxis[i] = FSub(FMul(R(i - 1), args.dt), args.shift)
            /\ Len(self.rfs[k][j].data) = self.streams[k][1].stats.npts
            /\ Numerator(self.args.rot, self.args.wvtype, j) # ""
                  => self.rfs[k][j].stats.channel =
                        <<"R", "F", Numerator(self.args.rot, self.args.wvtype, j)>>

\* C16, amended: the time axis of each receiver-function pair is
\* (sample index - npts/2) * dt, which is the axis of the input record only
\* when shift = npts * dt / 2; each waveform has the record's sample count;
\* the channels are RF + the names of the first and second component
\* selected for the rotation.
C16_CentredTimeAxis ==
    (last.op = "calculate_rfs" /\ last.exc = "none") =>
        \A k \in 1..Len(self.rfs), j \in 1..2 :
            /\ Len(self.rfs[k][j].stats.taxis) = args.npts
            /\ \A i \in 1..args.npts :
                  self.rfs[k][j].stats.taxis[i] =
                      FMul(FSub(R(i - 1), Q(args.npts, 2)), args.dt)
            /\ (self.rfs[k][j].stats.taxis = self.streams[k][1].stats.taxis)
                  <=> (args.shift = FMul(Q(args.npts, 2), args.dt))
            /\ Len(self.rfs[k][j].data) = self.streams[k][1].stats.npts
            /\ self.rfs[k][j].stats.channel = <<"R", "F", RTZ(self.args.rot)[j]>>

\* C16 witness: receiver functions of four samples have been computed from
\* records shifted by one sample; their axis starts two samples before 0.
C16_Witness ==
    /\ last.op = "calculate_rfs"
    /\ last.exc = "none"
    /\ args.npts = 4
    /\ args.shift = args.dt
    /\ self.streams[1][1].stats.taxis[1] = Q(-1, 40)
    /\ self.rfs[1][1].stats.taxis[1] = Q(-1, 20)

\* ------------------------------------------------------- StreamList.filter
\* The StreamLists filter is called on: of rotation 0 or 2, of wave type P
\* or one that is none, with one record or two of two samples.
FilterArgs ==
    [rot : {0, 2}, wvtype : {"P", "SP"}, labels : {2}, npts : {2},
     ntr : {1, 2}, dt : {Q(1, 40)}, shift : {Q(1, 40)}]

\* The arguments typ and ftype of filter: the three targets and a string
\* that is none, a filter type of the trace container and one that is none.
Targets == {"streams", "rfs", "all", "both"}

Ftypes == {"bandpass", "notch"}

InitFilter ==
    /\ args \in FilterArgs
    /\ self = StreamList(Zip(Bazs(MaxTr), Slows(MaxTr)), StreamsOf(args),
                         [rot |-> args.rot, wvtype |-> args.wvtype])
    /\ last = Call("none", -1, -1, -1, "", <<>>, Ok(<<>>))
    /\ ops = 0

Filter(typ, ftype) ==
    LET r == filter(self, typ, ftype)
    IN  /\ ops < MaxOps
        /\ self' = r.self
        /\ last' = [typ |-> typ, ftype |-> ftype] @@ Call("filter", -1, -1, -1, "", <<>>, r)
        /\ ops' = ops + 1
        /\ UNCHANGED args

NextFilter ==
    \/ CalculateRfs
    \/ \E typ \in Targets, ftype \in Ftypes : Filter(typ, ftype)

SpecFilter == InitFilter /\ [][NextFilter]_vars

\* C19: filter with typ 'rfs' or 'all' on a StreamList whose receiver
\* functions have not been computed raises; it never returns normally
\* having filtered a part of what was asked for.
C19_FilterWithoutRfsRaises ==
    (last.op = "filter" /\ last.typ \in {"rfs", "all"} /\ ~self.has_rfs)
        => last.exc # "none"

\* ================================================================== run_frs
\* A run of run_frs is followed statement by statement.  self holds the
\* position pc of the run, its locals shift, tr_ph and streamlist, and
\* events, the calls made so far: the call of the solver, its return, the
\* call of read_traces and the call of calculate_rfs.

\* The arguments of run_frs: rf, the three rotations and one that is none,
\* the three wave types and one that is none, a sample count the solver's
\* array holds, a geometry of one trace or two, shift left out or given.
RunArgs ==
    [rf : BOOLEAN,
     rot : 0..3,
     wvtype : {"P", "SV", "SH", "SP"},
     npts : {n \in FftSizes : n <= MaxSamp},
     ntr : {1, 2},
     dt : {Q(1, 40)},
     shift : {[tag |-> "None"], Scalar(Q(1, 20))}]

\* The locals of a run that has not assigned them.
Locals(a, pc, shift) ==
    [pc |-> pc, shift |-> shift, tr_ph |-> <<>>, events |-> <<>>,
     streamlist |-> StreamList(<<>>, <<>>, [rot |-> a.rot, wvtype |-> a.wvtype])]

\* Mutant of Refused: the arguments are not looked at before the solver is
\* called.
Refused_never(a) == FALSE

\* if args.rf and (args.rot == 0)
Refused(a) == a.rf /\ a.rot = 0

InitRun ==
    /\ args \in RunArgs
    /\ self = Locals(args, "start", R(0))
    /\ last = Call("none", -1, -1, -1, "", <<>>, Ok(<<>>))
    /\ ops = 0

\* The statements before the call of the solver: the default of shift and
\* the test of rf against rot.
Begin ==
    LET shift == IF args.shift.tag = "None" THEN args.dt ELSE args.shift.v[1]
    IN  /\ self.pc = "start"
        /\ IF Refused(args)
           THEN /\ self' = [self EXCEPT !.pc = "raised", !.shift = shift]
                /\ last' = Call("run_frs", -1, -1, -1, "", <<>>,
                                Raise(<<>>, "Exception", "The argument 'rot' cannot be '0'"))
           ELSE /\ self' = [self EXCEPT !.pc = "call_seis_spread", !.shift = shift]
                /\ UNCHANGED last
        /\ UNCHANGED <<args, ops>>

\* fraysum.call_seis_spread(...): the solver returns its output array or
\* fails; its failure is passed on to the caller.
CallSolver ==
    /\ self.pc = "call_seis_spread"
    /\ \/ /\ self' = [self EXCEPT !.pc = "read_traces", !.tr_ph = SolverOutput,
                                  !.events = @ \o <<"call_seis_spread", "returned">>]
          /\ UNCHANGED last
       \/ /\ self' = [self EXCEPT !.pc = "raised",
                                  !.events = Append(@, "call_seis_spread")]
          /\ last' = Call("run_frs", -1, -1, -1, "", <<>>,
                          Raise(<<>>, "SolverError", "failure of the solver"))
    /\ UNCHANGED <<args, ops>>

\* streams = read_traces(...); streamlist = StreamList(...).
Unpack ==
    LET geom == Zip(Bazs(args.ntr), Slows(args.ntr))
        r == read_traces([traces |-> self.tr_ph,
                          kwargs |-> {"geom", "dt", "rot", "shift", "npts", "ntr"},
                          geom |-> geom, dt |-> args.dt, rot |-> args.rot,
                          shift |-> self.shift, npts |-> args.npts, ntr |-> args.ntr])
    IN  /\ self.pc = "read_traces"
        /\ IF r.exc # "none"
           THEN /\ self' = [self EXCEPT !.pc = "raised", !.events = Append(@, "read_traces")]
                /\ last' = Call("run_frs", -1, -1, -1, "", <<>>, r)
           ELSE /\ self' = [self EXCEPT !.pc = IF args.rf THEN "calculate_rfs" ELSE "return",
                                        !.events = Append(@, "read_traces"),
                                        !.streamlist = StreamList(geom, r.self,
                                                                  [rot |-> args.rot,
                                                                   wvtype |-> args.wvtype])]
                /\ UNCHANGED last
        /\ UNCHANGED <<args, ops>>

\* if rf: streamlist.calculate_rfs()
Rfs ==
    LET r == calculate_rfs(self.streamlist)
    IN  /\ self.pc = "calculate_rfs"
        /\ IF r.exc # "none"
           THEN /\ self' = [self EXCEPT !.pc = "raised", !.events = Append(@, "calculate_rfs")]
                /\ last' = Call("run_frs", -1, -1, -1, "", <<>>, Raise(<<>>, r.exc, r.msg))
           ELSE /\ self' = [self EXCEPT !.pc = "return", !.events = Append(@, "calculate_rfs"),
                                        !.streamlist = r.self]
                /\ UNCHANGED last
        /\ UNCHANGED <<args, ops>>

\* return streamlist
Return ==
    /\ self.pc = "return"
    /\ self' = [self EXCEPT !.pc = "done"]
    /\ last' = Call("run_frs", -1, -1, -1, "", <<>>, Ok(<<>>))
    /\ UNCHANGED <<args, ops>>

NextRun == Begin \/ CallSolver \/ Unpack \/ Rfs \/ Return

SpecRun == InitRun /\ [][NextRun]_vars

\* The number of times event e is in a log.
Count(log, e) == Cardinality({i \in 1..Len(log) : log[i] = e})

\* C13: run_frs with rf true and rot = 0 raises and does not call the
\* solver; no run calls the solver more than once; read_traces and
\* calculate_rfs are called only after the solver has returned.
C13_SolverProtocol ==
    /\ (args.rf /\ args.rot = 0)
          => /\ self.events = <<>>
             /\ self.pc \in {"start", "raised"}
             /\ self.pc = "raised" => last.exc # "none"
    /\ Count(self.events, "call_seis_spread") <= 1
    /\ \A i \in 1..Len(self.events) :
          self.events[i] \in {"read_traces", "calculate_rfs"}
              => \E j \in 1..(i - 1) : self.events[j] = "returned"

\* C13 witness: a run with rf true and rot = 0 has ended with an exception
\* and without a call of the solver.
C13_Witness ==
    /\ last.op = "run_frs"
    /\ args.rf
    /\ args.rot = 0
    /\ last.exc = "Exception"
    /\ self.pc = "raised"
    /\ Count(self.events, "call_seis_spread") = 0

\* ====================================================== cached_coefficients
\* self.cache is the dict cached_coefficients; self.designs is the list of
\* the keys signal.butter has returned a design for, in the order of the
\* calls.  A design is the tuple (b, a) that call number id returned; two
\* designs for one key hold equal numbers and are different objects.

FLess(a, b) == a[1] * b[2] < b[1] * a[2]

\* signal.butter(order, corners, btype='band') raises ValueError unless the
\* corners are inside (0, 1), as fractions of the Nyquist frequency.
ButterRaises(corners) ==
    \E i \in 1..Len(corners) : ~(FLess(R(0), corners[i]) /\ FLess(corners[i], R(1)))

\* The design signal.butter returns in its call number id: its numbers are
\* those of the filter library for (order, corners).
Butter(order, corners, id) ==
    [b_a |-> [order |-> order, Wn |-> corners, btype |-> "band"], id |-> id]

\* cached_coefficients[ck] = value
Put(cache, ck, value) ==
    [k \in (DOMAIN cache) \cup {ck} |-> IF k = ck THEN value ELSE cache[k]]

\* Mutant of _get_cached_bandpass_coefs: the design is made anew on every
\* call.
_get_cached_bandpass_coefs_always_designs(st, order, corners) ==
    LET ck == <<order, corners>>
    IN  IF ButterRaises(corners)
        THEN Raise(st, "ValueError", "Digital filter critical frequencies must be 0 < Wn < 1")
                 @@ [coefs |-> <<>>]
        ELSE LET st1 == [st EXCEPT !.cache = Put(@, ck, Butter(order, corners, Len(st.designs) + 1)),
                                   !.designs = Append(@, ck)]
             IN  Ok(st1) @@ [coefs |-> st1.cache[ck]]

\* _get_cached_bandpass_coefs(order, corners); the result carries the
\* returned tuple as coefs.
_get_cached_bandpass_coefs(st, order, corners) ==
    LET ck == <<order, corners>>
    IN  IF ck \notin DOMAIN st.cache
        THEN IF ButterRaises(corners)
             THEN Raise(st, "ValueError", "Digital filter critical frequencies must be 0 < Wn < 1")
                      @@ [coefs |-> <<>>]
             ELSE LET st1 == [st EXCEPT !.cache = Put(@, ck, Butter(order, corners,
                                                                     Len(st.designs) + 1)),
                                        !.designs = Append(@, ck)]
                  IN  Ok(st1) @@ [coefs |-> st1.cache[ck]]
        ELSE Ok(st) @@ [coefs |-> st.cache[ck]]

\* ======================================================== filtered_rf_array
\* order = 2
order == 2

\* np.mean(arr)
Mean(arr) == FDiv(FSum(arr), R(Len(arr)))

\* The two passes of signal.lfilter over arr, forth and back: the numbers
\* they give are those of the filter library for the coefficients b_a and
\* the input x.
Lfiltfilt(b_a, x) == [b_a |-> b_a, x |-> x]

\* _bandpass(arr) of filtered_rf_array; the result carries the filtered
\* array as out.
bandpass(st, arr, dt, fmin, fmax) ==
    LET r == _get_cached_bandpass_coefs(st, order,
                 <<FMul(FMul(R(2), dt), fmin), FMul(FMul(R(2), dt), fmax)>>)
    IN  IF r.exc # "none" THEN Raise(r.self, r.exc, r.msg) @@ [out |-> <<>>]
        ELSE Ok(r.self) @@
             [out |-> Lfiltfilt(r.coefs.b_a,
                                Array([i \in 1..Len(arr) |-> FSub(arr[i], Mean(arr))], Len(arr)))]

\* The two spectral divisions of filtered_rf_array for a trace of three
\* components: ft_rfr by ft_ztr and ft_rft by ft_ztr.
RfRows(trace) ==
    <<Deconvolve(fft(trace[2]), fft(trace[1])),
      Deconvolve(fft(trace[3]), fft(trace[1]))>>

\* The loop of filtered_rf_array from trace n on (n counts from 1).
RECURSIVE FastLoop(_, _, _, _)
FastLoop(st, data, n, a) ==
    IF n > Len(data) THEN Ok(st)
    ELSE LET rf == RfRows(data[n])
             r0 == bandpass(st, rf[1], a.dt, a.fmin, a.fmax)
         IN  IF r0.exc # "none" THEN Raise(r0.self, r0.exc, r0.msg)
             ELSE LET st0 == [r0.self EXCEPT !.arr_out[n][1] = r0.out]
                      r1 == bandpass(st0, rf[2], a.dt, a.fmin, a.fmax)
                  IN  IF r1.exc # "none" THEN Raise(r1.self, r1.exc, r1.msg)
                      ELSE FastLoop([r1.self EXCEPT !.arr_out[n][2] = r1.out], data, n + 1, a)

\* filtered_rf_array(sspread_arr, arr_out, ntr, npts, dt, fmin, fmax) for
\* ntr and npts that the array holds; arr_out is passed in as zeros of
\* shape (ntr, 2, npts).
filtered_rf_array(st, a) ==
    LET ns == Min(a.npts, Len(a.sspread_arr[1]))
        nt == Min(a.ntr, Len(a.sspread_arr[1][1]))
        data == [t \in 1..nt |-> [c \in 1..3 |-> [i \in 1..ns |-> a.sspread_arr[c][i][t]]]]
    IN  FastLoop([st EXCEPT !.arr_out = [t \in 1..a.ntr |-> [j \in 1..2 |-> Zeros(a.npts)]]],
                 Array(data, nt), 1, a)

\* The calls of filtered_rf_array: ntr, npts, dt and the band (fmin, fmax).
\* (0.05, 0.5) at dt = 0.05 has the corners of (0.1, 1) at dt = 0.025, and
\* (1, 40) reaches past the Nyquist frequency.
FastCases ==
    {<<2, 4, Q(1, 40), <<Q(1, 10), R(1)>>>>,
     <<2, 2, Q(1, 20), <<Q(1, 20), Q(1, 2)>>>>,
     <<1, 2, Q(1, 40), <<Q(1, 20), Q(1, 2)>>>>,
     <<1, 4, Q(1, 20), <<Q(1, 10), R(1)>>>>,
     <<1, 2, Q(1, 40), <<R(1), R(40)>>>>}

\* The arguments of filtered_rf_array.
FastArgs ==
    {[sspread_arr |-> SolverOutput, ntr |-> c[1], npts |-> c[2], dt |-> c[3],
      fmin |-> c[4][1], fmax |-> c[4][2]] : c \in FastCases}

\* The arguments of a direct call of _get_cached_bandpass_coefs.
CoefArgs ==
    [order : {2, 4},
     corners : {<<Q(1, 200), Q(1, 20)>>, <<Q(1, 400), Q(1, 40)>>, <<Q(1, 10), Q(1, 2)>>,
                <<Q(1, 2), R(2)>>}]

InitFast ==
    /\ args = [order |-> 0, corners |-> <<>>]
    /\ self = [cache |-> <<>>, designs |-> <<>>, arr_out |-> <<>>, coefs |-> <<>>]
    /\ last = Call("none", -1, -1, -1, "", <<>>, Ok(<<>>))
    /\ ops = 0

GetCachedBandpassCoefs(a) ==
    LET r == _get_cached_bandpass_coefs(self, a.order, a.corners)
    IN  /\ ops < MaxOps
        /\ args' = a
        /\ self' = [r.self EXCEPT !.coefs = r.coefs]
        /\ last' = Call("_get_cached_bandpass_coefs", -1, -1, -1, "", <<>>, r)
        /\ ops' = ops + 1

FilteredRfArray(a) ==
    LET r == filtered_rf_array(self, a)
    IN  /\ ops < MaxOps
        /\ args' = a
        /\ self' = r.self
        /\ last' = Call("filtered_rf_array", -1, -1, -1, "", <<>>, r)
        /\ ops' = ops + 1

NextFast ==
    \/ \E a \in CoefArgs : GetCachedBandpassCoefs(a)
    \/ \E a \in FastArgs : FilteredRfArray(a)

SpecFast == InitFast /\ [][NextFast]_vars

\* The number of designs signal.butter has returned for the key ck.
Designs(st, ck) == Count(st.designs, ck)

\* C18: in calls made one after the other, the design for a key (order,
\* corners) is performed exactly once, by the first call that asks for it:
\* a key is in the cache exactly when one design was returned for it and
\* never more than one was; a call for a key in the cache performs no
\* design and returns the tuple stored, the same as every call before it
\* for this key; a stored tuple is never replaced or removed; a call for a
\* key that is not in the cache, with corners signal.butter accepts,
\* performs one design, stores it under the key and returns it.
C18_DesignedOnce ==
    [][ /\ \A ck \in DOMAIN self'.cache : Designs(self', ck) = 1
        /\ \A i \in 1..Len(self'.designs) : self'.designs[i] \in DOMAIN self'.cache
        /\ \A ck \in DOMAIN self.cache :
              ck \in DOMAIN self'.cache /\ self'.cache[ck] = self.cache[ck]
        /\ last'.op = "_get_cached_bandpass_coefs" =>
              LET ck == <<args'.order, args'.corners>>
              IN  IF ck \in DOMAIN self.cache
                  THEN /\ self'.designs = self.designs
                       /\ self'.coefs = self.cache[ck]
                       /\ last'.exc = "none"
                  ELSE IF last'.exc = "none"
                       THEN /\ self'.designs = Append(self.designs, ck)
                            /\ self'.coefs = self'.cache[ck]
                            /\ self'.coefs.id = Len(self'.designs)
                       ELSE /\ self'.designs = self.designs
                            /\ self'.cache = self.cache
      ]_vars

\* C18 witness: filtered_rf_array at dt = 0.05 with the band (0.05, 0.5) has
\* run after a call at dt = 0.025 with the band (0.1, 1) has stored the
\* design for these corners: one design was made, by the first of the calls.
C18_Witness ==
    /\ ops = 2
    /\ last.op = "filtered_rf_array"
    /\ last.exc = "none"
    /\ args.dt = Q(1, 20)
    /\ self.designs = << <<order, <<Q(1, 200), Q(1, 20)>>>> >>
    /\ self.cache[<<order, <<Q(1, 200), Q(1, 20)>>>>].id = 1

\* The receiver functions of the full pipeline for the solver output and
\* the counts of a call of filtered_rf_array: read_traces(rot=2), then
\* calculate_rfs for the wave type.
Pipeline(a, wvtype) ==
    calculate_rfs(
        StreamList(Zip(Bazs(MaxTr), Slows(MaxTr)),
                   read_traces([traces |-> a.sspread_arr, kwargs |-> kwlist \ {"traces"},
                                geom |-> Zip(Bazs(MaxTr), Slows(MaxTr)), dt |-> a.dt,
                                rot |-> 2, shift |-> a.dt, npts |-> a.npts,
                                ntr |-> a.ntr]).self,
                   [rot |-> 2, wvtype |-> wvtype])).self.rfs

\* The samples less their mean, as _bandpass hands them to the filter.
Demeaned(x) == [i \in 1..Len(x) |-> FSub(x[i], Mean(x))]

\* The wave types the full pipeline supports.
WaveTypes == {"P", "SV", "SH"}

\* C17: for one solver output, ntr and npts, and for every wave type the
\* full pipeline supports, the deconvolution filtered_rf_array hands to the
\* filter for trace n is the one of read_traces(rot=2) + calculate_rfs for
\* record n: row [n, 0] is the first receiver function of the record and
\* row [n, 1] the second, with the rows in the order of the traces.
C17_SameDeconvolution ==
    (last.op = "filtered_rf_array" /\ last.exc = "none") =>
        \A wvtype \in WaveTypes :
            LET rfs == Pipeline(args, wvtype)
            IN  /\ Len(rfs) = Len(self.arr_out)
                /\ \A n \in 1..Len(rfs) : \A j \in 1..2 :
                      self.arr_out[n][j].x = Demeaned(rfs[n][j].data)

\* ================================= _get_cached_bandpass_coefs, two workers
\* Two workers run _get_cached_bandpass_coefs at once, with no lock in the
\* code: each goes through its statements one at a time and the other may
\* run between any two of them.  args[w] is the call of worker w;
\* self.pc[w] is the statement it is at, self.local[w] the design
\* signal.butter handed it and that is not yet stored, self.coefs[w] what
\* the call returned.
Workers == {1, 2}

RaceArgs ==
    [order : {2},
     corners : {<<Q(1, 200), Q(1, 20)>>, <<Q(1, 10), Q(1, 2)>>, <<Q(1, 2), R(2)>>}]

CacheKey(a) == <<a.order, a.corners>>

InitRace ==
    /\ args \in [Workers -> RaceArgs]
    /\ self = [cache |-> <<>>, designs |-> <<>>,
               pc |-> [w \in Workers |-> "test"],
               local |-> [w \in Workers |-> <<>>],
               coefs |-> [w \in Workers |-> <<>>]]
    /\ last = Call("none", -1, -1, -1, "", <<>>, Ok(<<>>))
    /\ ops = 0

\* if ck not in cached_coefficients:
Lookup(w) ==
    /\ self.pc[w] = "test"
    /\ self' = [self EXCEPT !.pc[w] = IF CacheKey(args[w]) \in DOMAIN self.cache
                                      THEN "return" ELSE "design"]
    /\ last' = Call("test", w, -1, -1, "", <<>>, Ok(<<>>))
    /\ ops' = ops + 1
    /\ UNCHANGED args

\* signal.butter(order, corners, btype='band')
Design(w) ==
    /\ self.pc[w] = "design"
    /\ IF ButterRaises(args[w].corners)
       THEN /\ self' = [self EXCEPT !.pc[w] = "raised"]
            /\ last' = Call("design", w, -1, -1, "", <<>>,
                            Raise(<<>>, "ValueError",
                                  "Digital filter critical frequencies must be 0 < Wn < 1"))
       ELSE /\ self' = [self EXCEPT !.pc[w] = "store",
                                    !.designs = Append(@, CacheKey(args[w])),
                                    !.local[w] = Butter(args[w].order, args[w].corners,
                                                        Len(self.designs) + 1)]
            /\ last' = Call("design", w, -1, -1, "", <<>>, Ok(<<>>))
    /\ ops' = ops + 1
    /\ UNCHANGED args

\* cached_coefficients[ck] = ...
Store(w) ==
    /\ self.pc[w] = "store"
    /\ self' = [self EXCEPT !.pc[w] = "return",
                            !.cache = Put(@, CacheKey(args[w]), self.local[w]),
                            !.local[w] = <<>>]
    /\ last' = Call("store", w, -1, -1, "", <<>>, Ok(<<>>))
    /\ ops' = ops + 1
    /\ UNCHANGED args

\* return cached_coefficients[ck]
Fetch(w) ==
    /\ self.pc[w] = "return"
    /\ self' = [self EXCEPT !.pc[w] = "done",
                            !.coefs[w] = self.cache[CacheKey(args[w])]]
    /\ last' = Call("return", w, -1, -1, "", <<>>, Ok(<<>>))
    /\ ops' = ops + 1
    /\ UNCHANGED args

NextRace == \E w \in Workers : Lookup(w) \/ Design(w) \/ Store(w) \/ Fetch(w)

SpecRace == InitRace /\ [][NextRace]_vars

\* C20: two workers that call the cache at once with one key that is not
\* in the cache: in every interleaving the design for the key is performed
\* no more than once, and once both calls have returned it was performed
\* exactly once and both hold the same coefficients.
C20_RaceDesignsOnce ==
    (args[1] = args[2]) =>
        /\ Designs(self, CacheKey(args[1])) <= 1
        /\ (\A w \in Workers : self.pc[w] = "done") =>
              /\ Designs(self, CacheKey(args[1])) = 1
              /\ self.coefs[1].b_a = self.coefs[2].b_a

\* ==================================== Model.change and the isotropy flags
\* Models whose flags need not agree with their anisotropy, as a model file
\* or the constructor arguments may give them: RowD is RowA with 5 %
\* anisotropy and the flag of an isotropic layer, RowE is RowB with no
\* anisotropy and the flag of an anisotropic layer.
RowD == [RowA EXCEPT !.ani = R(5)]

RowE == [RowB EXCEPT !.flag = R(0)]

ChangeModels == {<<RowA, RowB>>, <<RowD, RowB>>, <<RowA, RowE>>, <<RowD, RowE>>}

\* The constructor arguments: the capacity holds the layers and no more, or
\* one more.
ChangeArgs == {ArgsOf(rows, Len(rows) + k) : rows \in ChangeModels, k \in {0, 1}}

\* Command strings of more than one directive, the last four with a
\* directive that fails:
\*   t0+10;d1+5  a0=5;a1=0  x0=1;t0+10  a0=5;x0=1;d1+5  t0+10;t9=1  d1+5;t0;a0=5
Chains ==
    {<<"t", "0", "+", "1", "0", ";", "d", "1", "+", "5">>,
     <<"a", "0", "=", "5", ";", "a", "1", "=", "0">>,
     <<"x", "0", "=", "1", ";", "t", "0", "+", "1", "0">>,
     <<"a", "0", "=", "5", ";", "x", "0", "=", "1", ";", "d", "1", "+", "5">>,
     <<"t", "0", "+", "1", "0", ";", "t", "9", "=", "1">>,
     <<"d", "1", "+", "5", ";", "t", "0", ";", "a", "0", "=", "5">>}

\* The command strings of the runs: one directive for every key, 'a0-5',
\* and the strings of more than one directive.
ChangeCommands ==
    {d.commands : d \in Asked} \cup {<<"a", "0", "-", "5">>} \cup Chains

InitChange ==
    /\ args \in ChangeArgs
    /\ self = __init__(args).self
    /\ last = Call("__init__", -1, -1, -1, "", <<>>, __init__(args))
    /\ ops = 0

NextChange ==
    \/ \E commands \in ChangeCommands : Change(commands)
    \/ \E n \in Indices : SplitLayer(n)
    \/ \E top \in Indices, bottom \in Indices : CombineLayers(top, bottom)

SpecChange == InitChange /\ [][NextChange]_vars

\* The layers the directives of a command string address, for the strings
\* whose directives are all well formed.
Addresses ==
    {[commands |-> d.commands, lays |-> {d.lay}] : d \in Asked}
    \cup {[commands |-> <<"a", "0", "-", "5">>, lays |-> {0}],
          [commands |-> <<"t", "0", "+", "1", "0", ";", "d", "1", "+", "5">>, lays |-> {0, 1}],
          [commands |-> <<"a", "0", "=", "5", ";", "a", "1", "=", "0">>, lays |-> {0, 1}]}

IsotropyError == "Can only combine isotropic layers"

\* C21: after a change whose directives were all applied, whatever their
\* keys, the flag of every addressed layer is 1 if its anisotropy is 0 and 0
\* otherwise, whatever the flag was before, and the flags of the other
\* layers are unchanged.  Consequently combine_layers, called next over a
\* range that holds an addressed layer, fails and changes nothing if that
\* layer's anisotropy is not 0; if it is 0, the call fails for want of
\* isotropy only when another layer of the range is flagged anisotropic.
C21_FlagRecomputed ==
    [][\A d \in Addresses :
         /\ (/\ last'.op = "change"
             /\ last'.commands = d.commands
             /\ last'.exc = "none") =>
               /\ Len(self'.flag) = Len(self.flag)
               /\ \A i \in 1..Len(self.flag) :
                     self'.flag[i] = IF i - 1 \in d.lays
                                     THEN IF self'.ani[i] = R(0) THEN R(1) ELSE R(0)
                                     ELSE self.flag[i]
         /\ (/\ last.op = "change"
             /\ last.commands = d.commands
             /\ last.exc = "none"
             /\ last'.op = "combine_layers") =>
               \A L \in d.lays :
                  (last'.top <= L /\ L <= last'.bottom) =>
                     IF self.ani[L + 1] # R(0)
                     THEN last'.exc # "none" /\ self' = self
                     ELSE last'.msg = IsotropyError =>
                             \E i \in last'.top..last'.bottom :
                                 i # L /\ i < self.nlay /\ self.flag[i + 1] = R(0)
      ]_vars

\* C21 witness: combine_layers(0, 1) has failed for want of isotropy on a
\* Model built with two isotropic layers, after a directive had given the
\* top layer an anisotropy of 5.
C21_Witness ==
    /\ ops = 2
    /\ last.op = "combine_layers"
    /\ last.top = 0
    /\ last.bottom = 1
    /\ last.msg = IsotropyError
    /\ args.ani.v = <<R(0), R(0)>>
    /\ args.flag.v = <<R(1), R(1)>>
    /\ self.ani[1] = R(5)
    /\ self.flag[1] = R(0)

\* C22: change applies the directives of a command string from left to
\* right and is not atomic: when a call raises, some k directives, those
\* before the failing one, are applied, the Model and its mirror are what
\* these k directives alone give, and the failing directive and the ones
\* after it have modified nothing.
C22_PrefixApplied ==
    [][(last'.op = "change" /\ last'.exc # "none") =>
          LET cmds == Split(last'.commands, ";")
          IN  \E k \in 0..(Len(cmds) - 1) :
                 /\ ChangeLoop(self, SubSeq(cmds, 1, k), 1, -1).exc = "none"
                 /\ ChangeLoop(self, SubSeq(cmds, 1, k + 1), 1, -1).exc # "none"
                 /\ self' = ChangeLoop(self, SubSeq(cmds, 1, k), 1, -1).self
      ]_vars

====
